---- MODULE Spec2Model ----
(***************************************************************************)
(* A model of uefi-boot: the x86_64 page-table builder (arch/x86_64.rs),   *)
(* the kernel and ramdisk loaders (loader/mod.rs), the ELF-64 reader       *)
(* (loader/elf64) and the handoff sequence of main.rs, run against a model *)
(* of the UEFI boot services the code calls.                               *)
(*                                                                         *)
(* Two specifications share the variables:                                 *)
(*   Spec     the whole pipeline of main(), one action per step;           *)
(*   MapSpec  prepare_root_pt followed by arbitrary calls of map(p, v).    *)
(***************************************************************************)
EXTENDS Integers, Sequences, FiniteSets, TLC

VARIABLES
    pc,     \* position of the single thread of control
    pts,    \* physical frames viewed as page tables: address -> [u64; 512]
    ram,    \* physical data memory: frame address -> contents of its chunks
    fw,     \* state of the firmware's boot services
    files,  \* the two files on the boot volume (the inputs)
    k,      \* locals of load_kernel / load_ramdisk
    m,      \* locals of main and get_memory_map, and the BootInfo record
    h       \* history of calls made (what the properties observe)

vars == <<pc, pts, ram, fw, files, k, m, h>>

(***************************************************************************)
(* 64-bit unsigned integers.  TLC's integers are 32 bits wide, so a u64 is *)
(* four 16-bit limbs, least significant first; W writes one the way a hex  *)
(* literal reads.  All arithmetic wraps modulo 2^64.                       *)
(***************************************************************************)
Limb == 2^16

W(w3, w2, w1, w0) == <<w0, w1, w2, w3>>

Zero64 == W(0, 0, 0, 0)

\* n < 2^31 as a u64
FromNat(n) == <<n % Limb, (n \div Limb) % Limb, 0, 0>>

\* the value of a u64 below 2^31, as a number
ToNat(a) == a[1] + a[2] * Limb

FitsNat(a) == a[3] = 0 /\ a[4] = 0 /\ a[2] < 2^15

Add64(a, b) ==
    LET s0 == a[1] + b[1]
        s1 == a[2] + b[2] + (s0 \div Limb)
        s2 == a[3] + b[3] + (s1 \div Limb)
        s3 == a[4] + b[4] + (s2 \div Limb)
    IN  <<s0 % Limb, s1 % Limb, s2 % Limb, s3 % Limb>>

\* whether a + b exceeds 2^64 - 1 (a debug build panics there)
AddOverflows(a, b) ==
    LET s0 == a[1] + b[1]
        s1 == a[2] + b[2] + (s0 \div Limb)
        s2 == a[3] + b[3] + (s1 \div Limb)
        s3 == a[4] + b[4] + (s2 \div Limb)
    IN  s3 >= Limb

AddNat(a, n) == Add64(a, FromNat(n))

LimbAt(a, i) == IF i \in 1..4 THEN a[i] ELSE 0

\* a >> n, 0 <= n < 64
Shr(a, n) ==
    LET q == n \div 16
        r == n % 16
        L(i) == (LimbAt(a, i + q) \div (2^r)) + (LimbAt(a, i + q + 1) % (2^r)) * (2^(16 - r))
    IN  <<L(1), L(2), L(3), L(4)>>

RECURSIVE BitAnd(_, _, _)
BitAnd(x, y, n) ==
    IF n = 0 THEN 0 ELSE ((x % 2) * (y % 2)) + 2 * BitAnd(x \div 2, y \div 2, n - 1)

RECURSIVE BitOr(_, _, _)
BitOr(x, y, n) ==
    IF n = 0 THEN 0
    ELSE (IF (x % 2) + (y % 2) > 0 THEN 1 ELSE 0) + 2 * BitOr(x \div 2, y \div 2, n - 1)

\* bitwise and / or of two hex digits, tabulated
And4 == [x \in 0..15 |-> [y \in 0..15 |-> BitAnd(x, y, 4)]]

Or4 == [x \in 0..15 |-> [y \in 0..15 |-> BitOr(x, y, 4)]]

\* bitwise and / or of two limbs, digit by digit
And16(x, y) ==
    IF y = 0 THEN 0
    ELSE IF y = Limb - 1 THEN x
    ELSE And4[x % 16][y % 16]
         + 16 * And4[(x \div 16) % 16][(y \div 16) % 16]
         + 256 * And4[(x \div 256) % 16][(y \div 256) % 16]
         + 4096 * And4[x \div 4096][y \div 4096]

Or16(x, y) ==
    IF y = 0 THEN x
    ELSE IF x = 0 THEN y
    ELSE Or4[x % 16][y % 16]
         + 16 * Or4[(x \div 16) % 16][(y \div 16) % 16]
         + 256 * Or4[(x \div 256) % 16][(y \div 256) % 16]
         + 4096 * Or4[x \div 4096][y \div 4096]

And64(a, b) == <<And16(a[1], b[1]), And16(a[2], b[2]), And16(a[3], b[3]), And16(a[4], b[4])>>

Or64(a, b) == <<Or16(a[1], b[1]), Or16(a[2], b[2]), Or16(a[3], b[3]), Or16(a[4], b[4])>>

\* a >= b, compared from the most significant limb down
Geq64(a, b) ==
    \/ a[4] > b[4]
    \/ a[4] = b[4] /\ a[3] > b[3]
    \/ a[4] = b[4] /\ a[3] = b[3] /\ a[2] > b[2]
    \/ a[4] = b[4] /\ a[3] = b[3] /\ a[2] = b[2] /\ a[1] >= b[1]

(***************************************************************************)
(* arch/x86_64.rs: constants and index functions.                          *)
(***************************************************************************)
PAGE_SIZE == 4096

PRESENT == W(0, 0, 0, 1)

FRAME_MASK == W(\h000F, \hFFFF, \hFFFF, \hF000)

\* the bound map() asserts on its virtual address
HIGHER_HALF == W(\hFFFF, \h8000, 0, 0)

Mask511 == FromNat(511)

Mask4095 == FromNat(4095)

ptl1_index(addr) == ToNat(And64(Shr(addr, 12), Mask511))

ptl2_index(addr) == ToNat(And64(Shr(addr, 12 + 9), Mask511))

ptl3_index(addr) == ToNat(And64(Shr(addr, 12 + 9 + 9), Mask511))

ptl4_index(addr) == ToNat(And64(Shr(addr, 12 + 9 + 9 + 9), Mask511))

check_page_alignment(addr) == And64(addr, Mask4095) = Zero64

(***************************************************************************)
(* A page table is an array of 512 u64 entries.  It is held as the         *)
(* function from the indices of its non-zero entries to their values: an   *)
(* index outside the domain reads zero, writing zero removes the index.    *)
(***************************************************************************)
EmptyTable == <<>>

PtGet(t, i) == IF i \in DOMAIN t THEN t[i] ELSE Zero64

\* (variant) a store that leaves the table with the one entry written
PtSet_Clobber(t, i, v) == [j \in {i} |-> v]

PtSet(t, i, v) ==
    IF v = Zero64
    THEN [j \in (DOMAIN t) \ {i} |-> t[j]]
    ELSE [j \in (DOMAIN t) \cup {i} |-> IF j = i THEN v ELSE t[j]]

\* the table a pointer refers to (memory never written as a table reads zero)
get_pt_from_ptr(tabs, ptr) == IF ptr \in DOMAIN tabs THEN tabs[ptr] ELSE EmptyTable

\* tabs with entry i of the table at ptr set to v
PtWrite(tabs, ptr, i, v) ==
    [a \in (DOMAIN tabs) \cup {ptr} |->
        IF a = ptr THEN PtSet(get_pt_from_ptr(tabs, ptr), i, v) ELSE tabs[a]]

(***************************************************************************)
(* The firmware.  Physical memory is frames 1..NFrames of PAGE_SIZE bytes. *)
(* Firmware owns the active root table (cr3), one table of its identity    *)
(* map reached through root entry 0, and a table left over in the upper    *)
(* half; pool buffers come from a reserved run of frames, one slot each;   *)
(* the remaining frames are free for AllocatePages.                        *)
(***************************************************************************)
NFrames == 24

Layout == [root |-> 1, pdpt |-> 2, junk |-> 3, pool |-> 4, npool |-> 4, first |-> 8]

\* size in bytes of one memory-map descriptor as the firmware reports it
DescSize == 48

\* size in bytes of the firmware's memory map before the bootloader runs
BaseMapSize == 480

\* most descriptors the map gains through pool allocations
MaxGrow == 3

Policies == {"low", "high"}

FrameAddr(f) == FromNat(f * PAGE_SIZE)

Min(S) == CHOOSE x \in S : \A y \in S : x <= y

Max(S) == CHOOSE x \in S : \A y \in S : x >= y

\* bases of the runs of n consecutive free frames
Runs(free, n) == {b \in free : \A i \in 0..(n - 1) : (b + i) \in free}

\* firmware flags: present, writable, and page-size (a 1 GiB identity page)
FwFlagsTable == FromNat(3)

FwFlagsHuge == FromNat(131)

\* the tables firmware installed: the root, the identity map's PDPT, and a
\* stale table still linked from the upper half of the root
FwTables ==
    LET root == FrameAddr(Layout.root)
        pdpt == FrameAddr(Layout.pdpt)
        junk == FrameAddr(Layout.junk)
    IN  (root :> (0 :> Or64(pdpt, FwFlagsTable) @@ 256 :> Or64(junk, FwFlagsTable)
                    @@ 511 :> Or64(junk, FwFlagsTable)))
        @@ (pdpt :> (0 :> FwFlagsHuge))
        @@ (junk :> (0 :> Or64(FrameAddr(Layout.junk), FwFlagsTable) @@ 511 :> FwFlagsHuge))

FwInit(policy) ==
    [free    |-> Layout.first..NFrames,
     policy  |-> policy,
     key     |-> 1,
     mapSize |-> BaseMapSize,
     pool    |-> {},
     exited  |-> FALSE]

\* env.rs allocate_pages: AllocatePages(AnyPages, LoaderData, n); `fail' is
\* the firmware reporting an error although memory is left
allocate_pages(f, n, fail) ==
    LET runs == Runs(f.free, n)
    IN  IF fail \/ n = 0 \/ runs = {}
        THEN [ok |-> FALSE, page |-> Zero64, fw |-> f]
        ELSE LET b == IF f.policy = "low" THEN Min(runs) ELSE Max(runs)
             IN  [ok   |-> TRUE,
                  page |-> FrameAddr(b),
                  fw   |-> [f EXCEPT !.free = @ \ (b..(b + n - 1)), !.key = @ + 1]]

\* env.rs allocate_pool: the map grows by `grow' descriptors (growth before
\* the first map query is part of the size that query reports, so only the
\* allocation between the two queries is given a growth other than 0)
allocate_pool(f, size, fail, grow) ==
    LET slots == (0..(Layout.npool - 1)) \ f.pool
    IN  IF fail \/ slots = {} \/ size > PAGE_SIZE
        THEN [ok |-> FALSE, ptr |-> Zero64, fw |-> f]
        ELSE [ok  |-> TRUE,
              ptr |-> FrameAddr(Layout.pool + Min(slots)),
              fw  |-> [f EXCEPT !.pool = @ \cup {Min(slots)},
                                !.key = @ + 1,
                                !.mapSize = @ + grow * DescSize]]

\* the growths a pool allocation may cause in firmware state f
Grows(f) == {g \in 0..MaxGrow : f.mapSize + g * DescSize <= BaseMapSize + MaxGrow * DescSize}

PoolSlotOf(ptr) == {s \in 0..(Layout.npool - 1) : FrameAddr(Layout.pool + s) = ptr}

\* env.rs free_pool: an error (a panic) for a buffer that is not live
free_pool(f, buffer) ==
    LET s == PoolSlotOf(buffer) \cap f.pool
    IN  IF s = {} THEN [ok |-> FALSE, fw |-> f]
        ELSE [ok |-> TRUE, fw |-> [f EXCEPT !.pool = @ \ s, !.key = @ + 1]]

(***************************************************************************)
(* arch/x86_64.rs: the page-table builder.                                 *)
(***************************************************************************)
\* the address in cr3
get_root_pt == FrameAddr(Layout.root)

\* allocate one frame and zero its 512 entries
get_zeroed_pt(tabs, f, fail) ==
    LET a == allocate_pages(f, 1, fail)
    IN  IF ~a.ok
        THEN [ok |-> FALSE, page |-> Zero64, pts |-> tabs, fw |-> f]
        ELSE [ok   |-> TRUE,
              page |-> a.page,
              pts  |-> [x \in (DOMAIN tabs) \cup {a.page} |->
                           IF x = a.page THEN EmptyTable ELSE tabs[x]],
              fw   |-> a.fw]

\* (variant) prepare_root_pt that stops one entry short of the end
prepare_root_pt_KeepLast(tabs) ==
    LET ptl4 == get_pt_from_ptr(tabs, get_root_pt)
    IN  [a \in (DOMAIN tabs) \cup {get_root_pt} |->
            IF a = get_root_pt
            THEN [j \in {i \in DOMAIN ptl4 : i < 256 \/ i = 511} |-> ptl4[j]]
            ELSE tabs[a]]

\* zero entries 256..511 of the root table
prepare_root_pt(tabs) ==
    LET ptl4 == get_pt_from_ptr(tabs, get_root_pt)
    IN  [a \in (DOMAIN tabs) \cup {get_root_pt} |->
            IF a = get_root_pt
            THEN [j \in {i \in DOMAIN ptl4 : i < 256} |-> ptl4[j]]
            ELSE tabs[a]]

\* (variant) map() without its assertion on the half of the address space
MapPrecond_NoHalfCheck(page, addr) ==
    /\ And64(page, Mask4095) = Zero64
    /\ And64(addr, Mask4095) = Zero64

\* the three assertions at the head of map()
MapPrecond(page, addr) ==
    /\ And64(page, Mask4095) = Zero64
    /\ And64(addr, Mask4095) = Zero64
    /\ Geq64(addr, HIGHER_HALF)

\* (variant) a descent that allocates the next table but leaves the entry
\* pointing at it unwritten
Descend_NoInstall(s, idx) ==
    IF ~s.ok THEN s
    ELSE LET e == PtGet(get_pt_from_ptr(s.pts, s.tbl), idx)
         IN  IF e = Zero64
             THEN LET z == get_zeroed_pt(s.pts, s.fw, s.nalloc + 1 = s.failAt)
                  IN  IF ~z.ok
                      THEN [s EXCEPT !.ok = FALSE, !.why = "alloc"]
                      ELSE [s EXCEPT !.pts = z.pts, !.fw = z.fw, !.tbl = z.page,
                                     !.nalloc = @ + 1]
             ELSE [s EXCEPT !.tbl = And64(e, FRAME_MASK)]

\* (variant) a descent that installs the next table with the writable flag
\* set beside the present flag
Descend_Writable(s, idx) ==
    IF ~s.ok THEN s
    ELSE LET e == PtGet(get_pt_from_ptr(s.pts, s.tbl), idx)
         IN  IF e = Zero64
             THEN LET z == get_zeroed_pt(s.pts, s.fw, s.nalloc + 1 = s.failAt)
                  IN  IF ~z.ok
                      THEN [s EXCEPT !.ok = FALSE, !.why = "alloc"]
                      ELSE [s EXCEPT !.pts = PtWrite(z.pts, s.tbl, idx, Or64(z.page, FromNat(3))),
                                     !.fw = z.fw,
                                     !.tbl = z.page,
                                     !.nalloc = @ + 1]
             ELSE [s EXCEPT !.tbl = And64(e, FRAME_MASK)]

\* one level of the descent: s.tbl is the table in hand, idx the index into
\* it; the (s.nalloc + 1)-th allocation of this call fails when it is s.failAt
Descend(s, idx) ==
    IF ~s.ok THEN s
    ELSE LET e == PtGet(get_pt_from_ptr(s.pts, s.tbl), idx)
         IN  IF e = Zero64
             THEN LET z == get_zeroed_pt(s.pts, s.fw, s.nalloc + 1 = s.failAt)
                  IN  IF ~z.ok
                      THEN [s EXCEPT !.ok = FALSE, !.why = "alloc"]
                      ELSE [s EXCEPT !.pts = PtWrite(z.pts, s.tbl, idx, Or64(z.page, PRESENT)),
                                     !.fw = z.fw,
                                     !.tbl = z.page,
                                     !.nalloc = @ + 1]
             ELSE [s EXCEPT !.tbl = And64(e, FRAME_MASK)]

\* what a frame just handed out by allocate_pages may hold
JunkTable == [j \in {0, 511} |-> W(\hFFFF, \hFFFF, \hFFFF, \hFFFF)]

\* tree t with the frame at ptr holding table tbl
WithTable(t, ptr, tbl) == [x \in (DOMAIN t) \cup {ptr} |-> IF x = ptr THEN tbl ELSE t[x]]

\* (variant) one level with the parent entry stored before the new table
\* is zeroed
DescendStages_InstallFirst(s, idx, d) ==
    IF ~s.ok \/ ~d.ok \/ d.nalloc = s.nalloc THEN d
    ELSE [d EXCEPT !.stages = s.stages \o
                      <<WithTable(s.pts, d.tbl, JunkTable),
                        PtWrite(WithTable(s.pts, d.tbl, JunkTable), s.tbl, idx, Or64(d.tbl, PRESENT)),
                        d.pts>>]

\* one level of map, d being Descend(s, idx), with the memory states its
\* stores go through when it makes a table: the frame as allocate_pages
\* hands it out, the frame after the loop of get_zeroed_pt, and the tree
\* after the store to the parent entry
DescendStages(s, idx, d) ==
    IF ~s.ok \/ ~d.ok \/ d.nalloc = s.nalloc THEN d
    ELSE [d EXCEPT !.stages = s.stages \o
                      <<WithTable(s.pts, d.tbl, JunkTable),
                        WithTable(s.pts, d.tbl, EmptyTable),
                        d.pts>>]

\* (variant) a leaf level that overwrites an entry already set
MapLeaf_Overwrite(s, page, addr) ==
    IF ~s.ok THEN s
    ELSE [s EXCEPT !.pts = PtWrite(@, s.tbl, ptl1_index(addr), Or64(page, PRESENT))]

\* the leaf level: panic on an entry already set, else install page | PRESENT
MapLeaf(s, page, addr) ==
    IF ~s.ok THEN s
    ELSE IF PtGet(get_pt_from_ptr(s.pts, s.tbl), ptl1_index(addr)) # Zero64
         THEN [s EXCEPT !.ok = FALSE, !.why = "mapped"]
         ELSE [s EXCEPT !.pts = PtWrite(@, s.tbl, ptl1_index(addr), Or64(page, PRESENT))]

\* (variant) map() with its assertions made after the descent
map_AssertLast(tabs, f, page, addr, failAt) ==
    LET s0 == [ok |-> TRUE, why |-> "", pts |-> tabs, fw |-> f,
               tbl |-> get_root_pt, nalloc |-> 0, failAt |-> failAt]
        r  == MapLeaf(Descend(Descend(Descend(s0, ptl4_index(addr)), ptl3_index(addr)),
                              ptl2_index(addr)), page, addr)
    IN  IF ~MapPrecond(page, addr) THEN [r EXCEPT !.ok = FALSE, !.why = "assert"] ELSE r

\* map(page, addr) on tables tabs and firmware f: [ok, why, pts, fw, ...]
map(tabs, f, page, addr, failAt) ==
    LET s0 == [ok |-> TRUE, why |-> "", pts |-> tabs, fw |-> f,
               tbl |-> get_root_pt, nalloc |-> 0, failAt |-> failAt]
    IN  IF ~MapPrecond(page, addr)
        THEN [s0 EXCEPT !.ok = FALSE, !.why = "assert"]
        ELSE MapLeaf(Descend(Descend(Descend(s0, ptl4_index(addr)), ptl3_index(addr)),
                             ptl2_index(addr)), page, addr)

\* the stages of the leaf store after level 2, and of the levels before it
StagesFrom2(s2, page, addr) == Append(s2.stages, MapLeaf(s2, page, addr).pts)

StagesFrom3(s3, page, addr) ==
    StagesFrom2(DescendStages(s3, ptl2_index(addr), Descend(s3, ptl2_index(addr))), page, addr)

StagesFrom4(s4, page, addr) ==
    StagesFrom3(DescendStages(s4, ptl3_index(addr), Descend(s4, ptl3_index(addr))), page, addr)

\* the trees memory holds in the course of map(page, addr), store by store,
\* s0 being the state map starts from
MapStagesFrom(s0, page, addr) ==
    IF ~MapPrecond(page, addr) THEN s0.stages
    ELSE StagesFrom4(DescendStages(s0, ptl4_index(addr), Descend(s0, ptl4_index(addr))),
                     page, addr)

MapStages(tabs, f, page, addr, failAt) ==
    MapStagesFrom([ok |-> TRUE, why |-> "", pts |-> tabs, fw |-> f, tbl |-> get_root_pt,
                   nalloc |-> 0, failAt |-> failAt, stages |-> <<tabs>>], page, addr)

\* the allocation of a map call that is made to fail (0: none)
FailAts == 0..3

(***************************************************************************)
(* The processor's 4-level walk of the tables for virtual address v: the   *)
(* four entries on the path; a level below a non-present entry reads zero. *)
(***************************************************************************)
IsPresent(e) == And64(e, PRESENT) = PRESENT

FrameOf(e) == And64(e, FRAME_MASK)

\* the entry read one level below entry e, at index idx
Below(tabs, e, idx) ==
    IF IsPresent(e) THEN PtGet(get_pt_from_ptr(tabs, FrameOf(e)), idx) ELSE Zero64

\* the walk w so far, one level further
WalkStep(tabs, w, idx) == Append(w, Below(tabs, w[Len(w)], idx))

Walk(tabs, v) ==
    WalkStep(tabs,
             WalkStep(tabs,
                      WalkStep(tabs,
                               <<PtGet(get_pt_from_ptr(tabs, get_root_pt), ptl4_index(v))>>,
                               ptl3_index(v)),
                      ptl2_index(v)),
             ptl1_index(v))

(***************************************************************************)
(* loader/elf64: the ELF-64 reader.  A slice is the length handed to       *)
(* from_slice together with the header and the program-header records the  *)
(* code reads through its pointer casts.                                   *)
(***************************************************************************)
Elf64HeaderSize == 64

ProgramHeaderSize == 56

ElfMagic == <<127, 69, 76, 70>>

ElfAbi_from(x) == IF x = 0 THEN <<"None">> ELSE <<"Unknown", x>>

ElfData_from(x) ==
    IF x = 1 THEN <<"LittleEndian">>
    ELSE IF x = 2 THEN <<"BigEndian">>
    ELSE <<"Unknown", x>>

ElfType_from(x) ==
    IF x = 0 THEN <<"None">>
    ELSE IF x = 1 THEN <<"Relocatable">>
    ELSE IF x = 2 THEN <<"Executable">>
    ELSE IF x = 3 THEN <<"SharedObject">>
    ELSE IF x = 4 THEN <<"Core">>
    ELSE IF x >= \hFE00 /\ x <= \hFEFF THEN <<"EnvSpecified", x>>
    ELSE IF x >= \hFF00 /\ x <= \hFFFF THEN <<"ProcSpecified", x>>
    ELSE <<"Unknown">>

ElfMachine_from(x) ==
    IF x = \h3E THEN <<"X86_64">>
    ELSE IF x = \hB7 THEN <<"AArch64">>
    ELSE IF x = \hF3 THEN <<"RiscV">>
    ELSE <<"Unknown", x>>

\* (variant) PHType::from with NOTE records taken for LOAD records
PHType_from_NoteAsLoad(x) ==
    IF x = 0 THEN <<"Null">>
    ELSE IF x = 1 \/ x = 4 THEN <<"Load">>
    ELSE IF x = 2 THEN <<"Dynamic">>
    ELSE <<"Unknown">>

PHType_from(x) ==
    IF x = 0 THEN <<"Null">>
    ELSE IF x = 1 THEN <<"Load">>
    ELSE IF x = 2 THEN <<"Dynamic">>
    ELSE IF x = 3 THEN <<"Interpreter">>
    ELSE IF x = 4 THEN <<"Note">>
    ELSE IF x = 5 THEN <<"ShLib">>
    ELSE IF x = 6 THEN <<"ProgramHeader">>
    ELSE IF x = 7 THEN <<"ThreadLocalStorage">>
    ELSE IF x >= \h60000000 /\ x <= \h6FFFFFFF THEN <<"EnvSpecified", x>>
    ELSE IF x >= \h70000000 /\ x <= \h7FFFFFFF THEN <<"ProcSpecified", x>>
    ELSE <<"Unknown">>

\* from_slice with the class byte examined before the magic bytes
from_slice_ClassFirst(slice) ==
    IF slice.len < Elf64HeaderSize
    THEN [ok |-> FALSE, err |-> <<"SliceTooSmall", Elf64HeaderSize>>]
    ELSE IF slice.hdr.ident[4 + 1] # 2 THEN [ok |-> FALSE, err |-> <<"NotElf64">>]
    ELSE IF SubSeq(slice.hdr.ident, 1, 4) # ElfMagic THEN [ok |-> FALSE, err |-> <<"NotElf">>]
    ELSE IF slice.hdr.ident[6 + 1] # 1 THEN [ok |-> FALSE, err |-> <<"InvalidVersion">>]
    ELSE IF slice.hdr.version # 1 THEN [ok |-> FALSE, err |-> <<"InvalidVersion">>]
    ELSE [ok |-> TRUE, err |-> <<>>]

\* from_slice with the length examined after the magic bytes
from_slice_MagicFirst(slice) ==
    IF SubSeq(slice.hdr.ident, 1, 4) # ElfMagic THEN [ok |-> FALSE, err |-> <<"NotElf">>]
    ELSE IF slice.len < Elf64HeaderSize
    THEN [ok |-> FALSE, err |-> <<"SliceTooSmall", Elf64HeaderSize>>]
    ELSE IF slice.hdr.ident[4 + 1] # 2 THEN [ok |-> FALSE, err |-> <<"NotElf64">>]
    ELSE IF slice.hdr.ident[6 + 1] # 1 THEN [ok |-> FALSE, err |-> <<"InvalidVersion">>]
    ELSE IF slice.hdr.version # 1 THEN [ok |-> FALSE, err |-> <<"InvalidVersion">>]
    ELSE [ok |-> TRUE, err |-> <<>>]

\* Elf64::from_slice: ident[i] of the source is ident[i + 1] here
from_slice(slice) ==
    IF slice.len < Elf64HeaderSize
    THEN [ok |-> FALSE, err |-> <<"SliceTooSmall", Elf64HeaderSize>>]
    ELSE IF SubSeq(slice.hdr.ident, 1, 4) # ElfMagic
    THEN [ok |-> FALSE, err |-> <<"NotElf">>]
    ELSE IF slice.hdr.ident[4 + 1] # 2
    THEN [ok |-> FALSE, err |-> <<"NotElf64">>]
    ELSE IF slice.hdr.ident[6 + 1] # 1
    THEN [ok |-> FALSE, err |-> <<"InvalidVersion">>]
    ELSE IF slice.hdr.version # 1
    THEN [ok |-> FALSE, err |-> <<"InvalidVersion">>]
    ELSE [ok |-> TRUE, err |-> <<>>]

data(slice) == ElfData_from(slice.hdr.ident[5 + 1])

abi(slice) == ElfAbi_from(slice.hdr.ident[7 + 1])

abi_version(slice) == slice.hdr.ident[8 + 1]

file_type(slice) == ElfType_from(slice.hdr.type_)

machine(slice) == ElfMachine_from(slice.hdr.machine)

entry(slice) == slice.hdr.entry

\* (variant) is_valid_locally with the machine field not looked at
is_valid_locally_AnyMachine(slice) == data(slice) = <<"LittleEndian">>

is_valid_locally(slice) == data(slice) = <<"LittleEndian">> /\ machine(slice) = <<"X86_64">>

\* the build profile: with overflow checks (a debug build) an arithmetic
\* overflow panics, without them (a release build) the result wraps
OverflowChecks == BOOLEAN

\* Elf64::program_headers: a u16 product, then a u64 sum, compared with the
\* slice length; the iterator starts at offset phoff of the slice
program_headers(slice, checks) ==
    LET product == slice.hdr.phnum * slice.hdr.phentsize
        ph_size == product % (2^16)
        required_size == AddNat(slice.hdr.phoff, ph_size)
    IN  IF checks /\ (product >= 2^16 \/ AddOverflows(slice.hdr.phoff, FromNat(ph_size)))
        THEN [panic |-> TRUE, ok |-> FALSE, err |-> <<>>, first |-> Zero64, num |-> 0]
        ELSE IF ~Geq64(FromNat(slice.len), required_size)
        THEN [panic |-> FALSE, ok |-> FALSE, err |-> <<"SliceTooSmall", required_size>>,
              first |-> Zero64, num |-> 0]
        ELSE [panic |-> FALSE, ok |-> TRUE, err |-> <<>>,
              first |-> slice.hdr.phoff, num |-> slice.hdr.phnum]

\* ProgramHeaderIter::next: the record is read at first + current * size_of
\* ProgramHeader (item: its offset in the slice)
iter_next(it) ==
    IF it.current = it.num
    THEN [item |-> <<"None">>, it |-> it]
    ELSE [item |-> <<"Some", AddNat(it.first, it.current * ProgramHeaderSize)>>,
          it |-> [it EXCEPT !.current = @ + 1]]

\* Elf64::contains: a u64 sum compared with the slice length
contains(slice, segment, checks) ==
    LET required_size == Add64(segment.offset, segment.filesz)
    IN  IF checks /\ AddOverflows(segment.offset, segment.filesz)
        THEN [panic |-> TRUE, val |-> FALSE]
        ELSE IF ~Geq64(FromNat(slice.len), required_size)
        THEN [panic |-> FALSE, val |-> FALSE]
        ELSE [panic |-> FALSE, val |-> TRUE]

(***************************************************************************)
(* Data memory.  A frame holds ChunksPerPage chunks of Granule bytes; the  *)
(* contents of a chunk are a tag: <<"junk">> (never written), <<"zero">>,  *)
(* or <<f, c>>, chunk c of file f ("k": the kernel, "r": the ramdisk).     *)
(* Every size of the model is a multiple of Granule.                       *)
(***************************************************************************)
Granule == PAGE_SIZE \div 2

ChunksPerPage == PAGE_SIZE \div Granule

JunkPage == [i \in 1..ChunksPerPage |-> <<"junk">>]

PageBase(a) == <<a[1] - (a[1] % PAGE_SIZE), a[2], a[3], a[4]>>

ChunkIn(a) == ((a[1] % PAGE_SIZE) \div Granule) + 1

PageOf(mem, a) == IF a \in DOMAIN mem THEN mem[a] ELSE JunkPage

\* frames start .. start + n pages, freshly allocated: contents unknown
Fresh(mem, start, n) ==
    LET new == {AddNat(start, i * PAGE_SIZE) : i \in 0..(n - 1)}
    IN  [a \in (DOMAIN mem) \cup new |-> IF a \in new THEN JunkPage ELSE mem[a]]

\* file.read: min(len, fsize) bytes of file f land at physical address start
ReadFile(mem, start, len, fsize, f) ==
    LET nread == IF len < fsize THEN len ELSE fsize
        nch   == nread \div Granule
        Idx(a, i) == ((ToNat(a) - ToNat(start)) \div PAGE_SIZE) * ChunksPerPage + (i - 1)
    IN  [a \in DOMAIN mem |->
            [i \in 1..ChunksPerPage |->
                IF Geq64(a, start) /\ Idx(a, i) < nch THEN <<f, Idx(a, i)>> ELSE mem[a][i]]]

\* the frame and chunk a virtual address resolves to: <<frame, chunk>>, or
\* <<>> when the walk meets an entry that is not present
Resolve(e1, va) == IF IsPresent(e1) THEN <<FrameOf(e1), ChunkIn(va)>> ELSE <<>>

Translate(tabs, va) == Resolve(Walk(tabs, PageBase(va))[4], va)

\* the contents seen at virtual address va
PRead(mem, t) == IF t = <<>> THEN <<"unmapped">> ELSE PageOf(mem, t[1])[t[2]]

VRead(tabs, mem, va) == PRead(mem, Translate(tabs, va))

\* boot_services.set_mem(start, len, 0) through the active tables
\* the chunks `targets' of mem zeroed; a target <<>> is a page fault
ZeroChunks(mem, targets) ==
    [ok  |-> <<>> \notin targets,
     ram |-> [a \in (DOMAIN mem) \cup {t[1] : t \in targets \ {<<>>}} |->
                 [i \in 1..ChunksPerPage |->
                     IF <<a, i>> \in targets THEN <<"zero">> ELSE PageOf(mem, a)[i]]]]

set_mem(tabs, mem, start, len) ==
    ZeroChunks(mem, {Translate(tabs, AddNat(start, c * Granule)) :
                        c \in 0..((len \div Granule) - 1)})

(***************************************************************************)
(* The inputs: the kernel file and the ramdisk file on the boot volume.    *)
(* A kernel file is its length, its header and its program-header records  *)
(* (at phoff, ProgramHeaderSize bytes apart, all inside the first chunk).  *)
(***************************************************************************)
MaxSegs == 2

KernelLen == 3 * PAGE_SIZE

V0 == W(\hFFFF, \h8000, \h0010, 0)

V2 == W(\hFFFF, \h8000, \h0020, 0)

Ident(class, dat, ver, abi_, abiver) ==
    <<127, 69, 76, 70, class, dat, ver, abi_, abiver, 0, 0, 0, 0, 0, 0, 0>>

Hdr(ident, type_, mach, version, phnum) ==
    [ident |-> ident, type_ |-> type_, machine |-> mach, version |-> version,
     entry |-> V0, phoff |-> FromNat(Elf64HeaderSize), phentsize |-> ProgramHeaderSize, phnum |-> phnum]

GoodHdr(phnum) == Hdr(Ident(2, 1, 1, 0, 0), 2, \h3E, 1, phnum)

\* headers from_slice or load_kernel refuses, one defect each
BadHdrs ==
    {Hdr(<<0, 0, 0, 0, 2, 1, 1, 0, 0, 0, 0, 0, 0, 0, 0, 0>>, 2, \h3E, 1, 0),
     Hdr(Ident(1, 1, 1, 0, 0), 2, \h3E, 1, 0),
     Hdr(Ident(2, 1, 0, 0, 0), 2, \h3E, 1, 0),
     Hdr(Ident(2, 1, 1, 0, 0), 2, \h3E, 0, 0),
     Hdr(Ident(2, 2, 1, 0, 0), 2, \h3E, 1, 0),
     Hdr(Ident(2, 1, 1, 0, 0), 2, \hB7, 1, 0),
     Hdr(Ident(2, 1, 1, 3, 0), 2, \h3E, 1, 0),
     Hdr(Ident(2, 1, 1, 0, 1), 2, \h3E, 1, 0),
     Hdr(Ident(2, 1, 1, 0, 0), 3, \h3E, 1, 0)}

ZeroHdr ==
    [ident |-> [i \in 1..16 |-> 0], type_ |-> 0, machine |-> 0, version |-> 0,
     entry |-> Zero64, phoff |-> Zero64, phentsize |-> 0, phnum |-> 0]

Seg(type_, offset, vaddr, filesz, memsz) ==
    [type_ |-> type_, offset |-> offset, vaddr |-> vaddr, filesz |-> filesz, memsz |-> memsz]

ZeroSeg == Seg(0, Zero64, Zero64, 0, 0)

\* the program headers a kernel file is built from (filesz <= memsz in all)
SegChoices ==
    {Seg(1, FromNat(PAGE_SIZE), V0, Granule, 2 * PAGE_SIZE),          \* a partial page of data, then BSS
     Seg(1, FromNat(PAGE_SIZE), V0, PAGE_SIZE, 2 * PAGE_SIZE),        \* a whole page of data, then BSS
     Seg(1, FromNat(PAGE_SIZE), V0, Granule, PAGE_SIZE + Granule),    \* BSS that ends inside a page
     Seg(1, FromNat(2 * PAGE_SIZE), V2, PAGE_SIZE, PAGE_SIZE),        \* the file's last page, no BSS
     Seg(4, FromNat(Granule), V2, Granule, Granule),                  \* a NOTE segment, not aligned
     Seg(1, FromNat(Granule), V2, Granule, Granule),                  \* LOAD, offset not aligned
     Seg(1, FromNat(2 * PAGE_SIZE), V2, PAGE_SIZE + Granule, 2 * PAGE_SIZE)}  \* LOAD, runs past the file

\* program-header tables beside the sequences over SegChoices: an offset
\* whose sum with filesz passes 2^64, a vaddr that is not aligned, and two
\* segments on neighbouring pages
ExtraSegSeqs ==
    {<<Seg(1, W(\hFFFF, \hFFFF, \hFFFF, \hF000), V0, PAGE_SIZE, PAGE_SIZE)>>,
     <<Seg(1, FromNat(PAGE_SIZE), W(\hFFFF, \h8000, \h0010, \h0800), Granule, Granule)>>,
     <<Seg(1, FromNat(2 * PAGE_SIZE), V2, PAGE_SIZE, PAGE_SIZE),
       Seg(1, FromNat(PAGE_SIZE), W(\hFFFF, \h8000, \h0020, \h1000), PAGE_SIZE, PAGE_SIZE)>>}

SegSeqs == UNION {[1..n -> SegChoices] : n \in 0..MaxSegs} \cup ExtraSegSeqs

KernelFiles ==
    {[len |-> KernelLen, hdr |-> GoodHdr(Len(ss)), ph |-> ss] : ss \in SegSeqs}
    \cup {[len |-> KernelLen, hdr |-> hd, ph |-> <<>>] : hd \in BadHdrs}
    \cup {[len |-> 0, hdr |-> ZeroHdr, ph |-> <<>>]}

RamdiskLens == {0, Granule}

\* what the file-info buffer holds when get_info fails: uninitialised pool
JunkLens == {0, Granule}

\* the st argument of efi_main, and the mode pointer of the graphics protocol
SystemTablePtr == W(0, 0, \h7F00, \h0018)

GopModePtr == W(0, 0, \h7E00, \h0040)

MAGIC == W(\hFEDC, \hBA98, \h7654, \h3210)

\* r_efi's MEMORY_DESCRIPTOR_VERSION, and the versions firmware may report
MEMORY_DESCRIPTOR_VERSION == 1

DescVersions == {1, 2}

\* size_of::<BootInfo>(), and the slack get_memory_map adds to its buffer
BootInfoSize == 64

MmapSlack == 128

\* the size of the file-info scratch buffer
InfoBufferSize == 256

(***************************************************************************)
(* Initial values of the program's locals and of the history.              *)
(***************************************************************************)
NoCall == [page |-> Zero64, addr |-> Zero64, ok |-> FALSE, why |-> "none", before |-> <<>>]

NoQuery == [status |-> "none", size_in |-> 0, fw_size |-> 0, key |-> 0, buf |-> Zero64,
            size |-> 0, desc |-> 0]

HInit ==
    [last   |-> NoCall,  \* the latest call of map: arguments, outcome, and the walk before it
     maps   |-> {},      \* <<addr, page>> of every call of map that returned
     ncalls |-> 0,       \* firmware calls made, console output aside
     since  |-> 0,       \* allocations and frees since the latest successful map query
     fwErr  |-> FALSE,   \* a service whose errors are fatal has returned an error
     kret   |-> FALSE,   \* load_kernel has returned
     q1     |-> 0,       \* the size the zero-length map query reported
     q2     |-> NoQuery, \* the map query into the buffer
     exits  |-> <<>>,    \* the calls of ExitBootServices
     kcalls |-> <<>>]    \* the calls of the kernel entry

KInit ==
    [kfile_len |-> 0, info_buffer |-> Zero64, kfile_start_page |-> Zero64,
     current |-> 0, num |-> 0, segment |-> ZeroSeg,
     total_pages |-> 0, n_pages_from_file |-> 0, n_alloc_pages |-> 0,
     seg_start_page |-> Zero64, alloc_start_page |-> Zero64, x |-> 0,
     junk_hdr |-> ZeroHdr,
     rdfile_len |-> 0, rdfile_start_page |-> Zero64]

JunkInfo ==
    [efi_mmap_start |-> <<"junk">>, efi_mmap_length |-> -1, efi_mmap_desc_size |-> -1,
     ramdisk_start |-> <<"junk">>, ramdisk_length |-> -1, efi_system_table |-> <<"junk">>,
     efi_gop_modes |-> <<"junk">>]

MInit ==
    [entry_fn_ptr |-> Zero64, rd_start |-> Zero64, rd_length |-> 0,
     info_buffer |-> Zero64, info |-> JunkInfo,
     mmap_size |-> 0, mmap_buffer |-> Zero64,
     mmap |-> Zero64, mmap_length |-> 0, desc_size |-> 0, mmap_key |-> 0]

NoFiles == [kernel |-> [len |-> 0, hdr |-> ZeroHdr, ph |-> <<>>], rdlen |-> 0]

\* note n firmware calls, mem of them allocations or frees
Called(hh, n, mem) == [hh EXCEPT !.ncalls = @ + n, !.since = @ + mem]

\* (variant) a panic handler that starts the pipeline again
PanicHandler_Retry ==
    /\ pc = "panic"
    /\ pc' = "start"
    /\ UNCHANGED <<pts, ram, fw, files, k, m, h>>

(***************************************************************************)
(* The panic path (main.rs panic_handler): print the message, then idle.   *)
(***************************************************************************)
PanicHandler ==
    /\ pc = "panic"
    /\ pc' = "halt"
    /\ UNCHANGED <<pts, ram, fw, files, k, m, h>>

(***************************************************************************)
(* MapSpec: prepare_root_pt, then any sequence of calls map(p, v) with p   *)
(* and v drawn from MapPages and MapAddrs, until one of them panics.       *)
(***************************************************************************)
MapPages == {W(0, 0, \h0020, 0), W(0, 0, \h0020, \h1000), W(0, 0, \h0020, \h0800)}

MapAddrs ==
    {W(\hFFFF, \h8000, 0, 0),            \* first page of the higher half
     W(\hFFFF, \h8000, 0, \h1000),       \* its neighbour, same leaf table
     W(\hFFFF, \hFFFF, \hFFFF, \hF000),  \* the last page of the address space
     W(\hFFFF, \h8000, 0, \h0800),       \* not page aligned
     W(0, \h0080, 0, 0),                 \* lower half, root entry 1
     W(\hFFFF, \h7FFF, \hFFFF, \hF000)}  \* just below the higher half

MapInit ==
    /\ pc = "t_prepare"
    /\ pts = FwTables
    /\ ram = <<>>
    /\ fw \in {FwInit(p) : p \in Policies}
    /\ files = NoFiles
    /\ k = KInit
    /\ m = MInit
    /\ h = HInit

TPrepare ==
    /\ pc = "t_prepare"
    /\ pts' = prepare_root_pt(pts)
    /\ pc' = "t_map"
    /\ UNCHANGED <<ram, fw, files, k, m, h>>

TMap ==
    /\ pc = "t_map"
    /\ \E p \in MapPages, v \in MapAddrs, fa \in FailAts :
          LET r == map(pts, fw, p, v, fa)
          IN  /\ pts' = r.pts
              /\ fw' = r.fw
              /\ pc' = IF r.ok THEN "t_map" ELSE "panic"
              /\ h' = [h EXCEPT !.last = [page |-> p, addr |-> v, ok |-> r.ok, why |-> r.why,
                                          before |-> Walk(pts, v)],
                                !.maps = IF r.ok THEN @ \cup {<<v, p>>} ELSE @]
    /\ UNCHANGED <<ram, files, k, m>>

MapNext == TPrepare \/ TMap \/ PanicHandler

MapSpec == MapInit /\ [][MapNext]_vars

(***************************************************************************)
(* Spec: the pipeline of main().  Every firmware call may report an error  *)
(* (the `fail' of the action); the panic path is pc = "panic".             *)
(***************************************************************************)
Init ==
    /\ pc = "start"
    /\ pts = FwTables
    /\ ram = <<>>
    /\ fw \in {FwInit(p) : p \in Policies}
    /\ files \in {[kernel |-> kf, rdlen |-> rl] : kf \in KernelFiles, rl \in RamdiskLens}
    /\ k = KInit
    /\ m = MInit
    /\ h = HInit

\* main.rs 34-40: record the system table, print the banner
MainStart ==
    /\ pc = "start"
    /\ pc' = "init_fs"
    /\ UNCHANGED <<pts, ram, fw, files, k, m, h>>

\* env::init_fs: two open_protocol calls and open_volume, each fatal on error
InitFs ==
    /\ pc = "init_fs"
    /\ \E failed \in 0..3 :
          /\ pc' = IF failed = 0 THEN "open_k" ELSE "panic"
          /\ h' = Called(h, IF failed = 0 THEN 3 ELSE failed, 0)
    /\ UNCHANGED <<pts, ram, fw, files, k, m>>

\* env::open_file(path).expect(..) for the two paths
OpenFile(here, next) ==
    /\ pc = here
    /\ \E fail \in BOOLEAN :
          /\ pc' = IF fail THEN "panic" ELSE next
          /\ h' = [Called(h, 1, 0) EXCEPT !.fwErr = @ \/ fail]
    /\ UNCHANGED <<pts, ram, fw, files, k, m>>

OpenKernel == OpenFile("open_k", "open_rd")

OpenRamdisk == OpenFile("open_rd", "prepare")

\* main.rs 50: arch::prepare_root_pt()
PrepareRoot ==
    /\ pc = "prepare"
    /\ pts' = prepare_root_pt(pts)
    /\ pc' = "k_pool"
    /\ UNCHANGED <<ram, fw, files, k, m, h>>

\* allocate_pool(256).expect(..) at the head of both loaders
InfoPool(here, next) ==
    /\ pc = here
    /\ \E fail \in BOOLEAN :
          LET a == allocate_pool(fw, InfoBufferSize, fail, 0)
          IN  /\ fw' = a.fw
              /\ k' = [k EXCEPT !.info_buffer = a.ptr]
              /\ pc' = IF a.ok THEN next ELSE "panic"
              /\ h' = [Called(h, 1, 1) EXCEPT !.fwErr = @ \/ ~a.ok]
    /\ UNCHANGED <<pts, ram, files, m>>

\* get_info with its status dropped, the length read from the buffer, the
\* buffer freed, and the assertion that the length is not zero
InfoLen(here, next, fsize, field) ==
    /\ pc = here
    /\ \E len \in {fsize} \cup JunkLens :
          LET fr == free_pool(fw, k.info_buffer)
          IN  /\ fw' = fr.fw
              /\ k' = [k EXCEPT ![field] = len]
              /\ pc' = IF fr.ok /\ len # 0 THEN next ELSE "panic"
              /\ h' = Called(h, 2, 1)
    /\ UNCHANGED <<pts, ram, files, m>>

\* (variant) the file buffer allocated with the status of allocate_pages
\* not looked at
FilePages_IgnoreError(here, next, lenf, startf) ==
    /\ pc = here
    /\ \E fail \in BOOLEAN :
          LET n == (k[lenf] \div PAGE_SIZE) + 1
              a == allocate_pages(fw, n, fail)
          IN  /\ fw' = a.fw
              /\ k' = [k EXCEPT ![startf] = a.page]
              /\ ram' = IF a.ok THEN Fresh(ram, a.page, n) ELSE ram
              /\ pc' = next
              /\ h' = [Called(h, 1, 1) EXCEPT !.fwErr = @ \/ ~a.ok]
    /\ UNCHANGED <<pts, files, m>>

\* (variant) the file buffer allocated one page larger
FilePages_OneMore(here, next, lenf, startf) ==
    /\ pc = here
    /\ \E fail \in BOOLEAN :
          LET n == (k[lenf] \div PAGE_SIZE) + 2
              a == allocate_pages(fw, n, fail)
          IN  /\ fw' = a.fw
              /\ k' = [k EXCEPT ![startf] = a.page]
              /\ ram' = IF a.ok THEN Fresh(ram, a.page, n) ELSE ram
              /\ pc' = IF a.ok THEN next ELSE "panic"
              /\ h' = [Called(h, 1, 1) EXCEPT !.fwErr = @ \/ ~a.ok]
    /\ UNCHANGED <<pts, files, m>>

\* n = len / PAGE_SIZE + 1; allocate_pages(n).expect(..)
FilePages(here, next, lenf, startf) ==
    /\ pc = here
    /\ \E fail \in BOOLEAN :
          LET n == (k[lenf] \div PAGE_SIZE) + 1
              a == allocate_pages(fw, n, fail)
          IN  /\ fw' = a.fw
              /\ k' = [k EXCEPT ![startf] = a.page]
              /\ ram' = IF a.ok THEN Fresh(ram, a.page, n) ELSE ram
              /\ pc' = IF a.ok THEN next ELSE "panic"
              /\ h' = [Called(h, 1, 1) EXCEPT !.fwErr = @ \/ ~a.ok]
    /\ UNCHANGED <<pts, files, m>>

\* set_position (status dropped) and read; a read error is fatal
FileRead(here, next, lenf, startf, fsize, f) ==
    /\ pc = here
    /\ \E fail \in BOOLEAN :
          /\ ram' = IF fail THEN ram ELSE ReadFile(ram, k[startf], k[lenf], fsize, f)
          /\ pc' = IF fail THEN "panic" ELSE next
          /\ h' = [Called(h, 2, 0) EXCEPT !.fwErr = @ \/ fail]
    /\ UNCHANGED <<pts, fw, files, k, m>>

KPool == InfoPool("k_pool", "k_info")

KInfo == InfoLen("k_info", "k_alloc", files.kernel.len, "kfile_len")

KAlloc == FilePages("k_alloc", "k_read", "kfile_len", "kfile_start_page")

KRead == FileRead("k_read", "k_parse", "kfile_len", "kfile_start_page", files.kernel.len, "k")

\* uninitialised memory read as an ELF header: what from_slice may find there
JunkHdrs == {ZeroHdr, GoodHdr(0)}

\* the first chunk of the kernel file buffer, where header and records lie
HdrChunk == PageOf(ram, k.kfile_start_page)[1]

\* the header as memory holds it now (jh: what uninitialised memory holds)
HdrNow(jh) ==
    IF HdrChunk = <<"k", 0>> THEN files.kernel.hdr
    ELSE IF HdrChunk = <<"junk">> THEN jh
    ELSE ZeroHdr

\* slice::from_raw_parts(kfile_start_page, kfile_len)
KSlice(jh) == [len |-> k.kfile_len, hdr |-> HdrNow(jh)]

\* the i-th program-header record as memory holds it now
PhNow(i) ==
    IF HdrChunk = <<"k", 0>> /\ i < Len(files.kernel.ph) THEN files.kernel.ph[i + 1] ELSE ZeroSeg

\* loader/mod.rs 42-63: from_slice, the four header checks, program_headers()
KParse ==
    /\ pc = "k_parse"
    /\ \E jh \in (IF HdrChunk = <<"junk">> THEN JunkHdrs ELSE {ZeroHdr}), checks \in OverflowChecks :
          LET slice == KSlice(jh)
              it == program_headers(slice, checks)
              good == /\ from_slice(slice).ok
                      /\ is_valid_locally(slice)
                      /\ abi(slice) = <<"None">>
                      /\ abi_version(slice) = 0
                      /\ file_type(slice) = <<"Executable">>
                      /\ it.ok
          IN  /\ k' = [k EXCEPT !.junk_hdr = jh, !.current = 0, !.num = IF good THEN it.num ELSE 0]
              /\ pc' = IF good THEN "k_next" ELSE "panic"
    /\ UNCHANGED <<pts, ram, fw, files, m, h>>

\* ProgramHeaderIter::next, then loader/mod.rs 65-82 for the record it yields
KNext ==
    /\ pc = "k_next"
    /\ \E checks \in OverflowChecks :
       IF k.current = k.num
       THEN /\ pc' = "k_ret"
            /\ k' = k
       ELSE LET segment == PhNow(k.current)
                slice == KSlice(k.junk_hdr)
                total_pages == (segment.memsz \div PAGE_SIZE) + 1
                n_pages_from_file == (segment.filesz \div PAGE_SIZE) + 1
            IN  IF PHType_from(segment.type_) # <<"Load">>
                THEN /\ pc' = "k_next"
                     /\ k' = [k EXCEPT !.current = @ + 1, !.segment = segment]
                ELSE IF ~(/\ check_page_alignment(segment.offset)
                          /\ check_page_alignment(segment.vaddr)
                          /\ contains(slice, [offset |-> segment.offset,
                                               filesz |-> FromNat(segment.filesz)], checks).val
                          /\ total_pages >= n_pages_from_file
                          /\ ~(checks /\ AddOverflows(k.kfile_start_page, segment.offset)))
                THEN /\ pc' = "panic"
                     /\ k' = [k EXCEPT !.current = @ + 1, !.segment = segment]
                ELSE /\ pc' = "k_mapfile"
                     /\ k' = [k EXCEPT !.current = @ + 1,
                                       !.segment = segment,
                                       !.total_pages = total_pages,
                                       !.n_pages_from_file = n_pages_from_file,
                                       !.n_alloc_pages = total_pages - n_pages_from_file,
                                       !.seg_start_page = Add64(k.kfile_start_page, segment.offset),
                                       !.x = 0]
    /\ UNCHANGED <<pts, ram, fw, files, m, h>>

\* one call of arch::map from the loader: page to addr, then on to `next'
\* when the loop is over
LoaderMap(page, addr, last, next) ==
    \E fa \in FailAts :
        LET r == map(pts, fw, page, addr, fa)
            calls == r.nalloc + (IF r.why = "alloc" THEN 1 ELSE 0)
        IN  /\ pts' = r.pts
            /\ fw' = r.fw
            /\ k' = [k EXCEPT !.x = @ + 1]
            /\ pc' = IF ~r.ok THEN "panic" ELSE IF k.x + 1 < last THEN pc ELSE next
            /\ h' = [Called(h, calls, calls) EXCEPT
                        !.last = [page |-> page, addr |-> addr, ok |-> r.ok, why |-> r.why,
                                  before |-> Walk(pts, addr)],
                        !.maps = IF r.ok THEN @ \cup {<<addr, page>>} ELSE @,
                        !.fwErr = @ \/ (r.why = "alloc")]
            /\ UNCHANGED <<ram, files, m>>

\* (variant) the file loop run once more than n_pages_from_file
KMapFile_OneMore ==
    /\ pc = "k_mapfile"
    /\ LoaderMap(AddNat(k.seg_start_page, k.x * PAGE_SIZE),
                 AddNat(k.segment.vaddr, k.x * PAGE_SIZE),
                 k.n_pages_from_file + 1,
                 IF k.n_alloc_pages # 0 THEN "k_allocseg" ELSE "k_zero")

\* loader/mod.rs 84-91: the pages that come from the file
KMapFile ==
    /\ pc = "k_mapfile"
    /\ LoaderMap(AddNat(k.seg_start_page, k.x * PAGE_SIZE),
                 AddNat(k.segment.vaddr, k.x * PAGE_SIZE),
                 k.n_pages_from_file,
                 IF k.n_alloc_pages # 0 THEN "k_allocseg" ELSE "k_zero")

\* loader/mod.rs 93-96: allocate_pages(n_alloc_pages).expect(..)
KAllocSeg ==
    /\ pc = "k_allocseg"
    /\ \E fail \in BOOLEAN :
          LET a == allocate_pages(fw, k.n_alloc_pages, fail)
          IN  /\ fw' = a.fw
              /\ k' = [k EXCEPT !.alloc_start_page = a.page, !.x = k.n_pages_from_file]
              /\ ram' = IF a.ok THEN Fresh(ram, a.page, k.n_alloc_pages) ELSE ram
              /\ pc' = IF a.ok THEN "k_mapalloc" ELSE "panic"
              /\ h' = [Called(h, 1, 1) EXCEPT !.fwErr = @ \/ ~a.ok]
    /\ UNCHANGED <<pts, files, m>>

\* (variant) the allocated pages mapped from the start of the segment
KMapAlloc_FromSegStart ==
    /\ pc = "k_mapalloc"
    /\ LoaderMap(AddNat(k.alloc_start_page, (k.x - k.n_pages_from_file) * PAGE_SIZE),
                 AddNat(k.segment.vaddr, (k.x - k.n_pages_from_file) * PAGE_SIZE),
                 k.total_pages,
                 "k_zero")

\* loader/mod.rs 98-106: the pages that were allocated
KMapAlloc ==
    /\ pc = "k_mapalloc"
    /\ LoaderMap(AddNat(k.alloc_start_page, (k.x - k.n_pages_from_file) * PAGE_SIZE),
                 AddNat(k.segment.vaddr, k.x * PAGE_SIZE),
                 k.total_pages,
                 "k_zero")

\* loader/mod.rs 109-118: set_mem over [vaddr + filesz, vaddr + memsz)
KZero ==
    /\ pc = "k_zero"
    /\ LET zeroed_start == AddNat(k.segment.vaddr, k.segment.filesz)
           zeroed_len == k.segment.memsz - k.segment.filesz
           z == set_mem(pts, ram, zeroed_start, zeroed_len)
       IN  /\ ram' = z.ram
           /\ pc' = IF z.ok THEN "k_next" ELSE "fault"
    /\ h' = Called(h, 1, 0)
    /\ UNCHANGED <<pts, fw, files, k, m>>

\* loader/mod.rs 122: elf.entry() as the return value
KReturn ==
    /\ pc = "k_ret"
    /\ m' = [m EXCEPT !.entry_fn_ptr = entry(KSlice(k.junk_hdr))]
    /\ h' = [h EXCEPT !.kret = TRUE]
    /\ pc' = "rd_pool"
    /\ UNCHANGED <<pts, ram, fw, files, k>>

RdPool == InfoPool("rd_pool", "rd_info")

RdInfo == InfoLen("rd_info", "rd_alloc", files.rdlen, "rdfile_len")

RdAlloc == FilePages("rd_alloc", "rd_read", "rdfile_len", "rdfile_start_page")

RdRead == FileRead("rd_read", "rd_ret", "rdfile_len", "rdfile_start_page", files.rdlen, "r")

\* loader/mod.rs 158 and main.rs 54: (rdfile_start_page, rdfile_len)
RdReturn ==
    /\ pc = "rd_ret"
    /\ m' = [m EXCEPT !.rd_start = k.rdfile_start_page, !.rd_length = k.rdfile_len]
    /\ pc' = "bi_alloc"
    /\ UNCHANGED <<pts, ram, fw, files, k, h>>

\* main.rs 57-58: allocate_pool(size_of::<BootInfo>()).expect(..)
BiAlloc ==
    /\ pc = "bi_alloc"
    /\ \E fail \in BOOLEAN :
          LET a == allocate_pool(fw, BootInfoSize, fail, 0)
          IN  /\ fw' = a.fw
              /\ m' = [m EXCEPT !.info_buffer = a.ptr, !.info = JunkInfo]
              /\ pc' = IF a.ok THEN "bi_fill" ELSE "panic"
              /\ h' = [Called(h, 1, 1) EXCEPT !.fwErr = @ \/ ~a.ok]
    /\ UNCHANGED <<pts, ram, files, k>>

\* graphics::get_mode: locate_protocol, None when it fails
get_mode(found) == IF found THEN <<"Some", GopModePtr>> ELSE <<"None">>

\* (variant) the record filled without its ramdisk_length
BiFill_NoLength ==
    /\ pc = "bi_fill"
    /\ \E found \in BOOLEAN :
          m' = [m EXCEPT !.info.ramdisk_start = m.rd_start,
                         !.info.efi_system_table = SystemTablePtr,
                         !.info.efi_gop_modes = get_mode(found)]
    /\ h' = Called(h, 1, 0)
    /\ pc' = "mm_q1"
    /\ UNCHANGED <<pts, ram, fw, files, k>>

\* main.rs 60-65: the four fields known before the memory map
BiFill ==
    /\ pc = "bi_fill"
    /\ \E found \in BOOLEAN :
          m' = [m EXCEPT !.info.ramdisk_start = m.rd_start,
                         !.info.ramdisk_length = m.rd_length,
                         !.info.efi_system_table = SystemTablePtr,
                         !.info.efi_gop_modes = get_mode(found)]
    /\ h' = Called(h, 1, 0)
    /\ pc' = "mm_q1"
    /\ UNCHANGED <<pts, ram, fw, files, k>>

\* boot_services.get_memory_map as firmware answers it: too small a size
\* only reports the size needed; else the size, the key and the format
FwGetMemoryMap(f, size_in, ver) ==
    IF size_in < f.mapSize
    THEN [status |-> "BUFFER_TOO_SMALL", size |-> f.mapSize, key |-> 0, desc |-> DescSize, ver |-> ver]
    ELSE [status |-> "SUCCESS", size |-> f.mapSize, key |-> f.key, desc |-> DescSize, ver |-> ver]

\* main.rs 97-112: the query with a zero-length buffer, which must fail
MmQuery1 ==
    /\ pc = "mm_q1"
    /\ LET r == FwGetMemoryMap(fw, 0, MEMORY_DESCRIPTOR_VERSION)
       IN  /\ m' = [m EXCEPT !.mmap_size = r.size]
           /\ pc' = IF r.status = "SUCCESS" THEN "panic" ELSE "mm_alloc"
           /\ h' = [Called(h, 1, 0) EXCEPT !.q1 = r.size]
    /\ UNCHANGED <<pts, ram, fw, files, k>>

\* main.rs 115-116: allocate_pool(mmap_size + 128).expect(..)
MmAlloc ==
    /\ pc = "mm_alloc"
    /\ \E fail \in BOOLEAN, g \in Grows(fw) :
          LET a == allocate_pool(fw, m.mmap_size + MmapSlack, fail, g)
          IN  /\ fw' = a.fw
              /\ m' = [m EXCEPT !.mmap_buffer = a.ptr]
              /\ pc' = IF a.ok THEN "mm_q2" ELSE "panic"
              /\ h' = [Called(h, 1, 1) EXCEPT !.fwErr = @ \/ ~a.ok]
    /\ UNCHANGED <<pts, ram, files, k>>

\* the size the second query hands to firmware: mmap_size, as the first
\* query left it
Query2Size == m.mmap_size

\* main.rs 117-133 and 68: the query into the buffer, the two checks, and
\* the tuple returned to main
MmQuery2 ==
    /\ pc = "mm_q2"
    /\ \E ver \in DescVersions :
          LET r == FwGetMemoryMap(fw, Query2Size, ver)
              ok == r.status = "SUCCESS"
          IN  /\ m' = [m EXCEPT !.mmap_size = r.size,
                                !.mmap = IF ok THEN m.mmap_buffer ELSE @,
                                !.mmap_length = IF ok THEN r.size ELSE @,
                                !.desc_size = IF ok THEN r.desc ELSE @,
                                !.mmap_key = IF ok THEN r.key ELSE @]
              /\ pc' = IF ok /\ r.ver = MEMORY_DESCRIPTOR_VERSION THEN "m_store" ELSE "panic"
              /\ h' = [Called(h, 1, 0) EXCEPT
                          !.since = IF ok THEN 0 ELSE @,
                          !.fwErr = @ \/ ~ok,
                          !.q2 = [status |-> r.status, size_in |-> Query2Size,
                                  fw_size |-> fw.mapSize, key |-> r.key,
                                  buf |-> m.mmap_buffer, size |-> r.size, desc |-> r.desc]]
    /\ UNCHANGED <<pts, ram, fw, files, k>>

\* (variant) a pool allocation made after the map query, before the exit
MainStoreMmap_Alloc ==
    /\ pc = "m_store"
    /\ m' = [m EXCEPT !.info.efi_mmap_start = m.mmap,
                      !.info.efi_mmap_length = m.mmap_length,
                      !.info.efi_mmap_desc_size = m.desc_size]
    /\ fw' = allocate_pool(fw, BootInfoSize, FALSE, 0).fw
    /\ h' = Called(h, 1, 1)
    /\ pc' = "exit"
    /\ UNCHANGED <<pts, ram, files, k>>

\* main.rs 69-71: the three memory-map fields of the record
MainStoreMmap ==
    /\ pc = "m_store"
    /\ m' = [m EXCEPT !.info.efi_mmap_start = m.mmap,
                      !.info.efi_mmap_length = m.mmap_length,
                      !.info.efi_mmap_desc_size = m.desc_size]
    /\ pc' = "exit"
    /\ UNCHANGED <<pts, ram, fw, files, k, h>>

\* (variant) the status of exit_boot_services not looked at
AfterExit_Ignore(ok) == "call"

\* what follows the status of exit_boot_services (main.rs 75-77)
AfterExit(ok) == IF ok THEN "call" ELSE "panic"

\* main.rs 74-77: exit_boot_services(image_handle, mmap_key); firmware
\* refuses a key that is not its current one, and may refuse otherwise
ExitBootServices ==
    /\ pc = "exit"
    /\ \E fail \in BOOLEAN :
          LET ok == (m.mmap_key = fw.key) /\ ~fail
          IN  /\ fw' = [fw EXCEPT !.exited = ok]
              /\ pc' = AfterExit(ok)
              /\ h' = [Called(h, 1, 0) EXCEPT
                          !.fwErr = @ \/ ~ok,
                          !.exits = Append(@, [key |-> m.mmap_key, fw_key |-> fw.key,
                                               q_key |-> h.q2.key, since |-> h.since,
                                               ok |-> ok])]
    /\ UNCHANGED <<pts, ram, files, k, m>>

\* main.rs 84-87: entry(MAGIC, info_buffer)
CallKernel ==
    /\ pc = "call"
    /\ h' = [h EXCEPT !.kcalls = Append(@, [entry |-> m.entry_fn_ptr, magic |-> MAGIC,
                                            info_ptr |-> m.info_buffer, info |-> m.info,
                                            exited |-> fw.exited])]
    /\ pc' = "kernel"
    /\ UNCHANGED <<pts, ram, fw, files, k, m>>

\* main.rs 89-90: should the kernel return, loop {}
KernelReturns ==
    /\ pc = "kernel"
    /\ pc' = "idle"
    /\ UNCHANGED <<pts, ram, fw, files, k, m, h>>

Next ==
    \/ MainStart \/ InitFs \/ OpenKernel \/ OpenRamdisk \/ PrepareRoot
    \/ KPool \/ KInfo \/ KAlloc \/ KRead \/ KParse \/ KNext
    \/ KMapFile \/ KAllocSeg \/ KMapAlloc \/ KZero \/ KReturn
    \/ RdPool \/ RdInfo \/ RdAlloc \/ RdRead \/ RdReturn
    \/ BiAlloc \/ BiFill \/ MmQuery1 \/ MmAlloc \/ MmQuery2 \/ MainStoreMmap
    \/ ExitBootServices \/ CallKernel \/ KernelReturns
    \/ PanicHandler

Spec == Init /\ [][Next]_vars

(***************************************************************************)
(* ElfSpec: the ELF reader on its own.  A caller holds a slice and a       *)
(* program-header record (k.slice, k.segment) drawn from ElfInputs, calls  *)
(* from_slice, then contains and program_headers, and drives the iterator  *)
(* past its end.  k.checks is the build profile.                           *)
(***************************************************************************)
MaxPhnum == 3

\* calls of next() made after the iterator is exhausted
ExtraCalls == 2

\* a header as the bytes of a slice give it
ElfHdr(ident, version, phoff, phentsize, phnum) ==
    [GoodHdr(phnum) EXCEPT !.ident = ident, !.version = version,
                           !.phoff = phoff, !.phentsize = phentsize]

\* slices for the header checks, for the table, and for contains
ElfInputs ==
    {[slice |-> [len |-> n, hdr |-> ElfHdr(<<mg, 69, 76, 70, cl, 1, iv, 0, 0, 0, 0, 0, 0, 0, 0, 0>>,
                                           v, FromNat(Elf64HeaderSize), ProgramHeaderSize, 0)],
      segment |-> [offset |-> Zero64, filesz |-> Zero64]] :
        n \in {0, 63, 64, 176}, mg \in {127, 0}, cl \in {2, 1}, iv \in {1, 0}, v \in {1, 0}}
    \cup
    {[slice |-> [len |-> n, hdr |-> ElfHdr(Ident(2, 1, 1, 0, 0), 1, po, es, pn)],
      segment |-> [offset |-> Zero64, filesz |-> Zero64]] :
        n \in {64, 176, 232, 4096},
        po \in {FromNat(Elf64HeaderSize), W(\hFFFF, \hFFFF, \hFFFF, \hFFC0)},
        es \in {ProgramHeaderSize, 64, 8, \h8000},
        pn \in 0..MaxPhnum}
    \cup
    {[slice |-> [len |-> n, hdr |-> ElfHdr(Ident(2, 1, 1, 0, 0), 1, FromNat(Elf64HeaderSize),
                                           ProgramHeaderSize, 0)],
      segment |-> [offset |-> o, filesz |-> fs]] :
        n \in {64, 4096},
        o \in {Zero64, FromNat(4096), W(\hFFFF, \hFFFF, \hFFFF, \hF000)},
        fs \in {Zero64, FromNat(4096), FromNat(8192), W(\hFFFF, \hFFFF, \hFFFF, \hFFFF)}}

ElfInit ==
    /\ pc = "e_start"
    /\ pts = FwTables
    /\ ram = <<>>
    /\ fw = FwInit(CHOOSE p \in Policies : TRUE)
    /\ files = NoFiles
    /\ \E in \in ElfInputs, checks \in OverflowChecks :
          k = [slice |-> in.slice, segment |-> in.segment, checks |-> checks,
               parsed |-> [ok |-> FALSE, err |-> <<>>],
               cont |-> [called |-> FALSE, panic |-> FALSE, val |-> FALSE],
               ph |-> [panic |-> FALSE, ok |-> FALSE, err |-> <<>>, first |-> Zero64, num |-> 0],
               it |-> [first |-> Zero64, current |-> 0, num |-> 0],
               items |-> <<>>]
    /\ m = MInit
    /\ h = HInit

\* Elf64::from_slice(slice)
EFromSlice ==
    /\ pc = "e_start"
    /\ k' = [k EXCEPT !.parsed = from_slice(k.slice)]
    /\ pc' = IF from_slice(k.slice).ok THEN "e_parsed" ELSE "e_done"
    /\ UNCHANGED <<pts, ram, fw, files, m, h>>

\* elf.contains(segment)
EContains ==
    /\ pc = "e_parsed"
    /\ ~k.cont.called
    /\ k' = [k EXCEPT !.cont = [called |-> TRUE,
                                panic |-> contains(k.slice, k.segment, k.checks).panic,
                                val |-> contains(k.slice, k.segment, k.checks).val]]
    /\ pc' = IF contains(k.slice, k.segment, k.checks).panic THEN "panic" ELSE "e_parsed"
    /\ UNCHANGED <<pts, ram, fw, files, m, h>>

\* elf.program_headers()
EProgramHeaders ==
    /\ pc = "e_parsed"
    /\ k' = [k EXCEPT !.ph = program_headers(k.slice, k.checks),
                      !.it = [first |-> program_headers(k.slice, k.checks).first,
                              current |-> 0,
                              num |-> program_headers(k.slice, k.checks).num]]
    /\ pc' = IF program_headers(k.slice, k.checks).panic THEN "panic"
             ELSE IF program_headers(k.slice, k.checks).ok THEN "e_iter"
             ELSE "e_done"
    /\ UNCHANGED <<pts, ram, fw, files, m, h>>

\* one call of next() on the iterator; the caller stops ExtraCalls calls
\* after the end
ENext ==
    /\ pc = "e_iter"
    /\ Len(k.items) < k.it.num + ExtraCalls
    /\ k' = [k EXCEPT !.it = iter_next(k.it).it,
                      !.items = Append(@, iter_next(k.it).item)]
    /\ pc' = "e_iter"
    /\ UNCHANGED <<pts, ram, fw, files, m, h>>

ElfNext == EFromSlice \/ EContains \/ EProgramHeaders \/ ENext \/ PanicHandler

ElfSpec == ElfInit /\ [][ElfNext]_vars

(***************************************************************************)
(* Properties.                                                             *)
(***************************************************************************)
\* the chunks of a segment's file part and of its zero-filled part
FileChunks(sg) == 0..((sg.filesz \div Granule) - 1)

BssChunks(sg) == (sg.filesz \div Granule)..((sg.memsz \div Granule) - 1)

\* segment sg reads through the tables as its file bytes followed by zeros
SegmentIntact(sg) ==
    /\ \A c \in FileChunks(sg) :
          VRead(pts, ram, AddNat(sg.vaddr, c * Granule)) =
             <<"k", IF sg.offset[2] = 0 /\ sg.offset[3] = 0 /\ sg.offset[4] = 0
                    THEN (sg.offset[1] \div Granule) + c
                    ELSE -1>>
    /\ \A c \in BssChunks(sg) :
          VRead(pts, ram, AddNat(sg.vaddr, c * Granule)) = <<"zero">>

\* C1: after load_kernel has returned (the file length read correctly),
\* every LOAD segment of the image reads through the installed mappings as
\* its file bytes [offset, offset + filesz) followed by zeros up to memsz.
C1_EverySegmentIntact ==
    (h.kret /\ k.kfile_len = files.kernel.len) =>
        \A i \in 1..Len(files.kernel.ph) :
            PHType_from(files.kernel.ph[i].type_) = <<"Load">> =>
                SegmentIntact(files.kernel.ph[i])

\* C2: a call map(p, v) with p and v page aligned, v in the higher half and
\* the leaf slot of v empty (and every table it needs allocated) returns,
\* and the walk of the resulting tree for v ends in the leaf p | present
\* below three ancestors that are present with a non-zero frame.
C2_MapInstallsLeaf ==
    (/\ h.last.why \notin {"none", "alloc"}
     /\ And64(h.last.page, Mask4095) = Zero64
     /\ And64(h.last.addr, Mask4095) = Zero64
     /\ Geq64(h.last.addr, HIGHER_HALF)
     /\ h.last.before[4] = Zero64)
    => /\ h.last.ok
       /\ Walk(pts, h.last.addr)[4] = Or64(h.last.page, PRESENT)
       /\ \A i \in 1..3 :
             /\ IsPresent(Walk(pts, h.last.addr)[i])
             /\ FrameOf(Walk(pts, h.last.addr)[i]) # Zero64

\* a call that returned after an earlier one had built the tables it needs
C2_Witness ==
    /\ h.last.ok
    /\ Cardinality(h.maps) >= 2
    /\ h.last.before[3] # Zero64
    /\ h.last.before[4] = Zero64

\* C3: a call of map for a mappable address whose leaf entry is already
\* set is fatal and leaves the walk for that address as it was: the address
\* still resolves to the page of the call that mapped it.
C3_DoubleMapFatal ==
    (/\ h.last.why # "none"
     /\ And64(h.last.addr, Mask4095) = Zero64
     /\ Geq64(h.last.addr, HIGHER_HALF)
     /\ h.last.before[4] # Zero64)
    => /\ ~h.last.ok
       /\ pc \in {"panic", "halt"}
       /\ Walk(pts, h.last.addr) = h.last.before
       /\ \E mp \in h.maps :
             /\ mp[1] = h.last.addr
             /\ Walk(pts, h.last.addr)[4] = Or64(mp[2], PRESENT)

\* a second call for a mapped address, with another physical page
C3_Witness ==
    /\ h.last.why = "mapped"
    /\ \E mp \in h.maps : mp[1] = h.last.addr /\ mp[2] # h.last.page

\* C4: whatever map calls follow prepare_root_pt, root entries 0..255 and
\* the tables firmware built hold the values firmware installed; every
\* other table is one the builder allocated.
C4_LowerHalfIntact ==
    /\ \A i \in 0..255 :
          PtGet(get_pt_from_ptr(pts, get_root_pt), i) = PtGet(FwTables[get_root_pt], i)
    /\ \A a \in (DOMAIN FwTables) \ {get_root_pt} : pts[a] = FwTables[a]
    /\ \A a \in (DOMAIN pts) \ (DOMAIN FwTables) :
          \E b \in Layout.first..NFrames : a = FrameAddr(b) /\ b \notin fw.free

\* mappings installed, then a call for a lower-half address refused
C4_Witness ==
    /\ h.last.why = "assert"
    /\ ~Geq64(h.last.addr, HIGHER_HALF)
    /\ And64(h.last.page, Mask4095) = Zero64
    /\ h.maps # {}

\* C5: every call of ExitBootServices passes the key of the latest
\* successful map query, nothing was allocated or freed since that query,
\* and so the key is the firmware's current one.
C5_ExitKeyIsCurrent ==
    \A i \in 1..Len(h.exits) :
        /\ h.q2.status = "SUCCESS"
        /\ h.exits[i].key = h.exits[i].q_key
        /\ h.exits[i].since = 0
        /\ h.exits[i].key = h.exits[i].fw_key

\* ExitBootServices called, and accepted
C5_Witness == Len(h.exits) = 1 /\ h.exits[1].ok

\* C6: the kernel entry is called at most once, after ExitBootServices
\* succeeded, with 0xFEDCBA9876543210 and the address of the boot-info
\* record, at the address load_kernel returned; when ExitBootServices
\* fails the entry is never called and the machine halts.
C6_KernelCalledOnceAfterExit ==
    /\ Len(h.kcalls) <= 1
    /\ \A i \in 1..Len(h.kcalls) :
          /\ h.kcalls[i].exited
          /\ \E j \in 1..Len(h.exits) : h.exits[j].ok
          /\ h.kcalls[i].magic = W(\hFEDC, \hBA98, \h7654, \h3210)
          /\ h.kcalls[i].info_ptr = m.info_buffer
          /\ h.kret
          /\ h.kcalls[i].entry = m.entry_fn_ptr
          /\ h.kcalls[i].entry = entry(KSlice(k.junk_hdr))
    /\ (\E j \in 1..Len(h.exits) : ~h.exits[j].ok) =>
          /\ h.kcalls = <<>>
          /\ pc \in {"panic", "halt"}

\* the kernel entry has been called
C6_Witness == Len(h.kcalls) = 1 /\ pc = "kernel"

\* C7: when the map has grown by at most 128 bytes between the two
\* queries, the query into the buffer succeeds.
C7_SlackAbsorbsGrowth ==
    (h.q2.status # "none" /\ h.q2.fw_size - h.q1 <= MmapSlack) => h.q2.status = "SUCCESS"

\* C8: when the kernel entry is called every field of the boot-info record
\* is written: the pair load_ramdisk returned, the system-table pointer,
\* the graphics mode pointer or None, and buffer, size and descriptor size
\* of the map query whose key ExitBootServices was given.
C8_BootInfoComplete ==
    \A i \in 1..Len(h.kcalls) :
        /\ h.kcalls[i].info.ramdisk_start = k.rdfile_start_page
        /\ h.kcalls[i].info.ramdisk_length = k.rdfile_len
        /\ h.kcalls[i].info.ramdisk_length > 0
        /\ h.kcalls[i].info.efi_system_table = SystemTablePtr
        /\ h.kcalls[i].info.efi_gop_modes \in {<<"Some", GopModePtr>>, <<"None">>}
        /\ h.q2.status = "SUCCESS"
        /\ h.kcalls[i].info.efi_mmap_start = h.q2.buf
        /\ h.kcalls[i].info.efi_mmap_length = h.q2.size
        /\ h.kcalls[i].info.efi_mmap_desc_size = h.q2.desc
        /\ h.exits[Len(h.exits)].key = h.q2.key

\* the kernel called on a machine without the graphics protocol
C8_Witness == Len(h.kcalls) = 1 /\ h.kcalls[1].info.efi_gop_modes = <<"None">>

\* C9: from the panic path on there is no firmware call but console
\* output, no ExitBootServices, no kernel call and no change of tables,
\* memory or allocator; the path leads to the idle loop and stays there.
C9_PanicIsFinal ==
    [][(pc \in {"panic", "halt"}) =>
          /\ pc' = "halt"
          /\ h'.ncalls = h.ncalls
          /\ h'.exits = h.exits
          /\ h'.kcalls = h.kcalls
          /\ fw' = fw
          /\ pts' = pts
          /\ ram' = ram]_vars

\* the idle loop reached after the kernel had been loaded
C9_Witness == pc = "halt" /\ h.kret /\ h.ncalls > 0

\* C10: once page or pool allocation, file open, file read, the map query
\* into the buffer or ExitBootServices has reported an error, the pipeline
\* is on the panic path.
C10_FirmwareErrorIsFatal == h.fwErr => (pc \in {"panic", "halt"} /\ h.kcalls = <<>>)

\* an error reported by the allocation of the ramdisk's pages
C10_Witness == h.fwErr /\ pc = "panic" /\ h.kret /\ k.rdfile_len > 0 /\ h.q1 = 0

\* C11: a call map(p, v) with p or v not page aligned, or v below the higher
\* half, ends on the panic path with the page tables and the allocator
\* exactly as they were before the call.
C11_RejectedCallChangesNothing ==
    [][(/\ pc = "t_map"
        /\ ~(/\ And64(h'.last.page, Mask4095) = Zero64
             /\ And64(h'.last.addr, Mask4095) = Zero64
             /\ Geq64(h'.last.addr, HIGHER_HALF)))
       => /\ pc' = "panic"
          /\ ~h'.last.ok
          /\ pts' = pts
          /\ fw' = fw]_vars

\* a call with an unaligned page refused after mappings had been installed
C11_Witness ==
    /\ h.last.why = "assert"
    /\ And64(h.last.page, Mask4095) # Zero64
    /\ Geq64(h.last.addr, HIGHER_HALF)
    /\ h.maps # {}

\* C12: after prepare_root_pt, every step keeps each non-zero page-table
\* entry at its value, and every address a map call has mapped still
\* resolves to the page of that call.
C12_EntriesNeverChange ==
    [][(pc # "t_prepare") =>
          /\ \A a \in DOMAIN pts :
                /\ a \in DOMAIN pts'
                /\ \A i \in DOMAIN pts[a] : PtGet(pts'[a], i) = pts[a][i]
          /\ \A mp \in h.maps : Translate(pts', mp[1]) = <<mp[2], ChunkIn(mp[1])>>]_vars

\* three addresses mapped one after the other
C12_Witness == Cardinality(h.maps) = 3 /\ h.last.ok /\ pc = "t_map"

\* the tables the builder allocated, and the entries the builder wrote:
\* the higher half of the root table and all of its own tables
BuilderTables == (DOMAIN pts) \ (DOMAIN FwTables)

BuilderEntries ==
    {pts[get_root_pt][i] : i \in {j \in DOMAIN pts[get_root_pt] : j >= 256}}
    \cup UNION {{pts[a][i] : i \in DOMAIN pts[a]} : a \in BuilderTables}

\* bits 1..11 and 52..63 of an entry
NonFrameBits == W(\hFFF0, 0, 0, \h0FFE)

\* C13: every entry the builder has written is a page-aligned frame address
\* with the present bit and nothing else: bits 1..11 and 52..63 are zero and
\* the frame mask gives back the address installed (a table the builder
\* allocated, or the page of a map call).
C13_EntriesAreFramePlusPresent ==
    (pc # "t_prepare") =>
        \A e \in BuilderEntries :
            /\ IsPresent(e)
            /\ And64(e, NonFrameBits) = Zero64
            /\ e = Or64(FrameOf(e), PRESENT)
            /\ And64(FrameOf(e), Mask4095) = Zero64
            /\ FrameOf(e) \in BuilderTables \cup {mp[2] : mp \in h.maps}

\* two mappings that share no table but the root
C13_Witness == Cardinality(h.maps) >= 2 /\ Cardinality(BuilderTables) >= 6

\* the table lies inside the slice: phoff + phnum * phentsize <= length, as
\* numbers (slices are shorter than 2^16 bytes)
TableFits ==
    /\ k.slice.hdr.phoff[2] = 0 /\ k.slice.hdr.phoff[3] = 0 /\ k.slice.hdr.phoff[4] = 0
    /\ k.slice.hdr.phoff[1] + k.slice.hdr.phnum * k.slice.hdr.phentsize <= k.slice.len

\* C14: for an accepted image whose program-header table fits in the slice,
\* the j-th call of next() on the iterator of program_headers() yields the
\* record at file position phoff + (j - 1) * phentsize for j <= phnum, and
\* end-of-sequence for every later call.
C14_IteratorYieldsTable ==
    (pc = "e_iter" /\ TableFits)
    => \A j \in 1..Len(k.items) :
          k.items[j] = IF j <= k.slice.hdr.phnum
                       THEN <<"Some", AddNat(k.slice.hdr.phoff, (j - 1) * k.slice.hdr.phentsize)>>
                       ELSE <<"None">>

\* program_headers() has been called and has come to its end
PhCalled == k.parsed.ok /\ ~k.cont.panic /\ pc \notin {"e_start", "e_parsed"}

\* C15: program_headers() fails with SliceTooSmall(phoff + phnum * phentsize)
\* when the slice is shorter than that sum, taken as numbers, and returns an
\* iterator otherwise.
C15_TableBoundIsExact ==
    PhCalled =>
       IF TableFits
       THEN k.ph.ok
       ELSE /\ ~k.ph.panic
            /\ ~k.ph.ok
            /\ k.ph.err[1] = "SliceTooSmall"
            /\ (k.slice.hdr.phoff[2] = 0 /\ k.slice.hdr.phoff[3] = 0 /\ k.slice.hdr.phoff[4] = 0)
               => k.ph.err[2] = FromNat(k.slice.hdr.phoff[1]
                                        + k.slice.hdr.phnum * k.slice.hdr.phentsize)

\* offset + filesz <= length, as numbers (slices are shorter than 2^16 bytes)
SegmentFits ==
    /\ \A i \in 2..4 : k.segment.offset[i] = 0 /\ k.segment.filesz[i] = 0
    /\ k.segment.offset[1] + k.segment.filesz[1] <= k.slice.len

\* C16: contains(segment) returns true exactly when offset + filesz, taken
\* as a number, is at most the length of the slice.
C16_ContainsIsExact ==
    k.cont.called => (~k.cont.panic /\ (k.cont.val <=> SegmentFits))

\* C17: on a slice of at least 64 bytes from_slice returns NotElf when the
\* first four bytes are not 7F 45 4C 46, otherwise NotElf64 when byte 4 is
\* not 2, otherwise InvalidVersion when byte 6 or the header version field is
\* not 1, otherwise an image; and an image exists only for a slice of at
\* least 64 bytes with the magic, class 2 and both versions 1.
C17_HeaderChecksInOrder ==
    (pc # "e_start") =>
       /\ (k.slice.len >= 64) =>
             k.parsed =
                IF <<k.slice.hdr.ident[1], k.slice.hdr.ident[2],
                     k.slice.hdr.ident[3], k.slice.hdr.ident[4]>> # <<127, 69, 76, 70>>
                THEN [ok |-> FALSE, err |-> <<"NotElf">>]
                ELSE IF k.slice.hdr.ident[5] # 2
                THEN [ok |-> FALSE, err |-> <<"NotElf64">>]
                ELSE IF k.slice.hdr.ident[7] # 1 \/ k.slice.hdr.version # 1
                THEN [ok |-> FALSE, err |-> <<"InvalidVersion">>]
                ELSE [ok |-> TRUE, err |-> <<>>]
       /\ k.parsed.ok =>
             /\ k.slice.len >= 64
             /\ k.slice.hdr.ident[1] = 127 /\ k.slice.hdr.ident[2] = 69
             /\ k.slice.hdr.ident[3] = 76 /\ k.slice.hdr.ident[4] = 70
             /\ k.slice.hdr.ident[5] = 2
             /\ k.slice.hdr.ident[7] = 1
             /\ k.slice.hdr.version = 1

\* a 64-byte slice with every defect at once, refused as NotElf
C17_Witness ==
    /\ pc = "e_done"
    /\ k.slice.len = 64
    /\ k.slice.hdr.ident[1] # 127
    /\ k.slice.hdr.ident[5] # 2
    /\ k.slice.hdr.ident[7] # 1
    /\ k.slice.hdr.version # 1
    /\ k.parsed.err = <<"NotElf">>

\* C18: on a slice shorter than 64 bytes from_slice fails with
\* SliceTooSmall(64), whatever the bytes are.
C18_LengthCheckedFirst ==
    (pc # "e_start" /\ k.slice.len < 64)
    => k.parsed = [ok |-> FALSE, err |-> <<"SliceTooSmall", 64>>]

\* a 63-byte slice whose magic is wrong, refused for its length
C18_Witness ==
    /\ pc = "e_done"
    /\ k.slice.len = 63
    /\ k.slice.hdr.ident[1] # 127
    /\ k.parsed.err = <<"SliceTooSmall", 64>>

\* the i-th virtual page of the segment being loaded, and the page of the
\* file buffer that holds the file bytes for it
SegVPage(i) == AddNat(k.segment.vaddr, i * PAGE_SIZE)

SegFilePage(i) == AddNat(Add64(k.kfile_start_page, k.segment.offset), i * PAGE_SIZE)

\* the pages of the kernel file buffer
FileBufferPages ==
    {AddNat(k.kfile_start_page, i * PAGE_SIZE) : i \in 0..(k.kfile_len \div PAGE_SIZE)}

\* a frame handed out by allocate_pages that is neither part of the file
\* buffer nor a page table nor the target of another mapping
IsFreshPage(mp) ==
    /\ \E f \in 1..NFrames : FrameAddr(f) = mp[2] /\ f \notin fw.free
    /\ mp[2] \notin FileBufferPages
    /\ mp[2] \notin DOMAIN pts
    /\ \A o \in h.maps : o[2] = mp[2] => o = mp

\* the segment being loaded has fp file-backed pages followed by tp - fp
\* fresh pages, and nothing mapped at the page after them
SegmentMappedAs(fp, tp) ==
    /\ \A i \in 0..(fp - 1) : <<SegVPage(i), SegFilePage(i)>> \in h.maps
    /\ \A i \in fp..(tp - 1) : \E mp \in h.maps : mp[1] = SegVPage(i) /\ IsFreshPage(mp)
    /\ Cardinality({mp \in h.maps : \E i \in 0..tp : mp[1] = SegVPage(i)}) = tp

CeilDiv(n, d) == (n + d - 1) \div d

\* C19 as stated: when the map loops of a LOAD segment with filesz <= memsz
\* are over, ceil(filesz/4096) + 1 of its pages are file backed and the rest
\* of its ceil(memsz/4096) + 1 pages are freshly allocated.
C19_PageCountsCeil ==
    (pc = "k_zero" /\ k.segment.filesz <= k.segment.memsz)
    => SegmentMappedAs(CeilDiv(k.segment.filesz, PAGE_SIZE) + 1,
                       CeilDiv(k.segment.memsz, PAGE_SIZE) + 1)

\* C19, amended: when the map loops of a LOAD segment with filesz <= memsz
\* are over, floor(filesz/4096) + 1 of its pages are file backed and the
\* rest of its floor(memsz/4096) + 1 pages are freshly allocated.
C19_PageCountsFloor ==
    (pc = "k_zero" /\ k.segment.filesz <= k.segment.memsz)
    => SegmentMappedAs((k.segment.filesz \div PAGE_SIZE) + 1,
                       (k.segment.memsz \div PAGE_SIZE) + 1)

\* a segment whose sizes are not page multiples, with one page of each kind
C19_Witness ==
    /\ pc = "k_zero"
    /\ k.segment.filesz = Granule
    /\ k.segment.memsz = PAGE_SIZE + Granule
    /\ Cardinality(h.maps) = 2

\* every mapping installed so far belongs to the segment being loaded
SegmentAlone == \A mp \in h.maps : \E i \in 0..(k.x - 1) : mp[1] = SegVPage(i)

\* C20: within one LOAD segment, the x-th call of map (x = 0, 1, ... below
\* total_pages) is for the virtual page vaddr + x * 4096; below file_pages
\* its physical page is file buffer + offset + x * 4096, from file_pages on
\* it is the (x - file_pages)-th page of the run allocated for the segment,
\* which lies outside the file buffer; when the loops are over every page
\* below total_pages has had its call; and when no other segment has mapped
\* anything, no call finds its leaf entry already set.
C20_OneCallPerSegmentPage ==
    /\ [](pc = "k_zero" =>
             /\ k.x = (k.segment.memsz \div PAGE_SIZE) + 1
             /\ \A i \in 0..(k.x - 1) : \E mp \in h.maps : mp[1] = SegVPage(i))
    /\ [][(pc \in {"k_mapfile", "k_mapalloc"}) =>
             (/\ k.x < (k.segment.memsz \div PAGE_SIZE) + 1
              /\ k'.x = k.x + 1
              /\ h'.last.addr = SegVPage(k.x)
              /\ h'.last.page =
                    IF k.x < (k.segment.filesz \div PAGE_SIZE) + 1
                    THEN SegFilePage(k.x)
                    ELSE AddNat(k.alloc_start_page,
                                (k.x - ((k.segment.filesz \div PAGE_SIZE) + 1)) * PAGE_SIZE)
              /\ ((pc = "k_mapalloc") =>
                    (/\ h'.last.page \notin FileBufferPages
                     /\ \E f \in 1..NFrames : FrameAddr(f) = h'.last.page /\ f \notin fw.free))
              /\ ((pc = "k_mapfile") <=> (k.x < (k.segment.filesz \div PAGE_SIZE) + 1))
              /\ (SegmentAlone => h'.last.why # "mapped"))]_vars

\* a first segment of one file-backed and two allocated pages, fully mapped
C20_Witness ==
    /\ pc = "k_zero"
    /\ SegmentAlone
    /\ k.x = 3
    /\ k.segment.filesz = Granule
    /\ Cardinality(h.maps) = 3

\* the step from `here' that allocates a file buffer takes exactly n
\* contiguous frames from the firmware, the first being the buffer's start
BufferRun(here, startf, n) ==
    (pc = here /\ pc' # "panic")
    => /\ fw'.free \subseteq fw.free
       /\ Cardinality(fw.free \ fw'.free) = n
       /\ \E b \in fw.free :
             /\ FrameAddr(b) = k'[startf]
             /\ fw.free \ fw'.free = b..(b + n - 1)

\* the file is read to the start of its buffer
ReadAtOffsetZero ==
    /\ (pc = "k_parse" /\ k.kfile_len >= Granule /\ files.kernel.len >= Granule)
       => PageOf(ram, k.kfile_start_page)[1] = <<"k", 0>>
    /\ (pc = "rd_ret" /\ k.rdfile_len >= Granule /\ files.rdlen >= Granule)
       => PageOf(ram, k.rdfile_start_page)[1] = <<"r", 0>>

\* C21 as stated: for a non-zero file size, load_kernel and load_ramdisk
\* obtain exactly ceil(size/4096) + 1 contiguous pages for the file buffer,
\* and the file is then read into it at offset 0.
C21_BufferPagesCeil ==
    /\ []ReadAtOffsetZero
    /\ [][/\ BufferRun("k_alloc", "kfile_start_page", CeilDiv(k.kfile_len, PAGE_SIZE) + 1)
          /\ BufferRun("rd_alloc", "rdfile_start_page", CeilDiv(k.rdfile_len, PAGE_SIZE) + 1)]_vars

\* C21, amended: for a non-zero file size, load_kernel and load_ramdisk
\* obtain exactly floor(size/4096) + 1 contiguous pages for the file buffer,
\* and the file is then read into it at offset 0.
C21_BufferPagesFloor ==
    /\ []ReadAtOffsetZero
    /\ [][/\ BufferRun("k_alloc", "kfile_start_page", (k.kfile_len \div PAGE_SIZE) + 1)
          /\ BufferRun("rd_alloc", "rdfile_start_page", (k.rdfile_len \div PAGE_SIZE) + 1)]_vars

\* a ramdisk of half a page read into its one-page buffer
C21_Witness ==
    /\ pc = "rd_ret"
    /\ k.rdfile_len = Granule
    /\ files.rdlen = Granule
    /\ PageOf(ram, k.rdfile_start_page)[1] = <<"r", 0>>

\* the slice load_kernel parses is at least a header long and its header has
\* the magic, class 2, both versions 1, little-endian data, machine x86-64,
\* ABI None, ABI version 0 and type Executable
HeaderAccepted ==
    /\ k.kfile_len >= 64
    /\ SubSeq(HdrNow(k.junk_hdr).ident, 1, 4) = <<127, 69, 76, 70>>
    /\ HdrNow(k.junk_hdr).ident[5] = 2
    /\ HdrNow(k.junk_hdr).ident[6] = 1
    /\ HdrNow(k.junk_hdr).ident[7] = 1
    /\ HdrNow(k.junk_hdr).ident[8] = 0
    /\ HdrNow(k.junk_hdr).ident[9] = 0
    /\ HdrNow(k.junk_hdr).version = 1
    /\ HdrNow(k.junk_hdr).machine = 62
    /\ HdrNow(k.junk_hdr).type_ = 2

\* C22: load_kernel is in its segment loop, or has installed a mapping,
\* only when the bytes it parsed are an ELF-64 image that is little-endian,
\* for x86-64, with ABI None, ABI version 0 and type Executable; when they
\* are not, the parse step halts with the tables as prepare_root_pt left
\* them, no mapping installed and no page allocated.
C22_NoMappingWithoutValidImage ==
    /\ []((h.maps # {} \/ pc \in {"k_next", "k_mapfile", "k_allocseg", "k_mapalloc", "k_zero"})
          => HeaderAccepted)
    /\ [][(pc = "k_parse" /\ ~HeaderAccepted')
          => (/\ pc' = "panic"
              /\ pts' = prepare_root_pt(FwTables)
              /\ pts' = pts
              /\ fw' = fw
              /\ h'.maps = {})]_vars

\* a kernel file for another machine, read in full and refused
C22_Witness ==
    /\ pc = "panic"
    /\ HdrChunk = <<"k", 0>>
    /\ files.kernel.hdr.machine = \hB7
    /\ pts = prepare_root_pt(FwTables)
    /\ h.maps = {}

\* the record the iterator yields next is a LOAD segment whose offset or
\* vaddr is not 4 KiB aligned or whose file part, offset + filesz taken as
\* a number, reaches past the end of the file buffer's slice
NextSegmentRefusable ==
    /\ pc = "k_next"
    /\ k.current # k.num
    /\ PhNow(k.current).type_ = 1
    /\ \/ PhNow(k.current).offset[1] % 4096 # 0
       \/ PhNow(k.current).vaddr[1] % 4096 # 0
       \/ ~(/\ \A i \in 2..4 : PhNow(k.current).offset[i] = 0
            /\ PhNow(k.current).offset[1] + PhNow(k.current).filesz <= k.kfile_len)

\* C23: a LOAD segment whose offset or vaddr is not 4 KiB aligned, or whose
\* offset + filesz exceeds the file length, halts the loader at once: no
\* map call, no allocation and no zero-fill is made for it.
C23_BadSegmentHaltsFirst ==
    [][NextSegmentRefusable
       => (/\ pc' = "panic"
           /\ pts' = pts
           /\ ram' = ram
           /\ fw' = fw
           /\ h'.maps = h.maps)]_vars

\* the virtual pages the loader maps for a LOAD record sg
LoadPages(sg) == {AddNat(sg.vaddr, i * PAGE_SIZE) : i \in 0..(sg.memsz \div PAGE_SIZE)}

\* C24: a program header whose type is not LOAD is stepped over with no
\* check made on it and nothing mapped, allocated or zeroed; after
\* load_kernel has returned, the virtual pages mapped are those of the LOAD
\* records of the table alone.
C24_OnlyLoadSegmentsAct ==
    /\ []((h.kret /\ HdrChunk = <<"k", 0>>) =>
             {mp[1] : mp \in h.maps} =
                UNION {LoadPages(files.kernel.ph[i]) :
                          i \in {j \in 1..Len(files.kernel.ph) : files.kernel.ph[j].type_ = 1}})
    /\ [][(pc = "k_next" /\ k.current # k.num /\ PhNow(k.current).type_ # 1)
          => (/\ pc' = "k_next"
              /\ k'.current = k.current + 1
              /\ pts' = pts
              /\ ram' = ram
              /\ fw' = fw
              /\ h' = h)]_vars

\* load_kernel has returned for a table holding a NOTE record (whose offset
\* is not aligned) and a LOAD record
C24_Witness ==
    /\ h.kret
    /\ HdrChunk = <<"k", 0>>
    /\ h.maps # {}
    /\ \E i \in 1..Len(files.kernel.ph) :
          files.kernel.ph[i].type_ = 4 /\ files.kernel.ph[i].offset[1] % PAGE_SIZE # 0

\* the positions of main up to and including the call of prepare_root_pt
UpToPrepare == {"start", "init_fs", "open_k", "open_rd", "prepare"}

\* C25: prepare_root_pt is called once, before any call of map: main never
\* comes back to it, no map call is made before it, and the step that runs
\* it leaves root entries 256..511 all zero with no mapping installed.
C25_PrepareOnceBeforeMaps ==
    /\ []((pc \in UpToPrepare) => (h.maps = {} /\ h.last = NoCall))
    /\ [][/\ (pc \notin UpToPrepare) => (pc' \notin UpToPrepare)
          /\ (pc = "prepare") =>
                (/\ pc' \notin UpToPrepare
                 /\ \A i \in 256..511 : PtGet(get_pt_from_ptr(pts', get_root_pt), i) = Zero64
                 /\ \A i \in 0..255 : PtGet(get_pt_from_ptr(pts', get_root_pt), i)
                                      = PtGet(get_pt_from_ptr(pts, get_root_pt), i))
          /\ (pc # "prepare" /\ h'.last = h.last) =>
                (\A i \in 256..511 : PtGet(get_pt_from_ptr(pts', get_root_pt), i)
                                     = PtGet(get_pt_from_ptr(pts, get_root_pt), i))]_vars

\* the firmware's root table had entries in its upper half, prepare_root_pt
\* has run and a mapping has been installed since
C25_Witness ==
    /\ PtGet(get_pt_from_ptr(FwTables, get_root_pt), 511) # Zero64
    /\ pc = "k_zero"
    /\ h.maps # {}
    /\ PtGet(get_pt_from_ptr(pts, get_root_pt), 511) = Zero64

\* the tables of tree t that the processor reaches through the upper half of
\* the root: third level, second level, first level
LiveBelow(t, frames) ==
    {FrameOf(e) : e \in {x \in UNION {{get_pt_from_ptr(t, a)[i] : i \in DOMAIN get_pt_from_ptr(t, a)} :
                                        a \in frames} : IsPresent(x)}}

LiveL3(t) ==
    {FrameOf(e) : e \in {x \in {get_pt_from_ptr(t, get_root_pt)[i] :
                                   i \in {j \in DOMAIN get_pt_from_ptr(t, get_root_pt) : j >= 256}} :
                            IsPresent(x)}}

\* no table reached through the upper half holds an entry left over from
\* before its allocation
LiveTreeClean(t) ==
    \A a \in LiveL3(t) \cup LiveBelow(t, LiveL3(t)) \cup LiveBelow(t, LiveBelow(t, LiveL3(t))) :
        \A i \in DOMAIN get_pt_from_ptr(t, a) : get_pt_from_ptr(t, a)[i] \notin
                                                   {JunkTable[j] : j \in DOMAIN JunkTable}

\* every tree of the sequence st is clean, the last one is tree t, and
\* there are n of them when n is not 0
StagesClean(st, t, n) ==
    /\ \A i \in 1..Len(st) : LiveTreeClean(st[i])
    /\ st[Len(st)] = t
    /\ n # 0 => Len(st) = n

\* C26: in every memory state a call of map goes through, store by store,
\* no table reached from the upper half of the root holds an entry the
\* builder did not write: a new table is linked only after it was zeroed.
C26_TablesZeroedBeforeLinked ==
    [][(pc = "t_map") =>
          \E fa \in FailAts :
             StagesClean(MapStages(pts, fw, h'.last.page, h'.last.addr, fa), pts',
                         IF h'.last.ok /\ h'.last.before[1] = Zero64 THEN 11 ELSE 0)]_vars

\* a call that created all three interior tables, after an earlier one
C26_Witness ==
    /\ pc = "t_map"
    /\ h.last.ok
    /\ h.last.before[1] = Zero64
    /\ Cardinality(h.maps) = 2

\* the positions inside load_ramdisk, and those after its length assertion
InRamdisk == {"rd_pool", "rd_info", "rd_alloc", "rd_read", "rd_ret"}

\* C27: load_ramdisk makes no call of map and changes no table entry; what
\* it returns is the start of the run the file was read into and the size
\* of the file; a ramdisk (or kernel) file of length zero halts the loader
\* before it allocates the file buffer.
C27_RamdiskNotMapped ==
    /\ []((files.rdlen = 0) => pc \notin {"rd_alloc", "rd_read", "rd_ret"})
    /\ []((files.kernel.len = 0) => pc \notin {"k_alloc", "k_read", "k_parse"})
    /\ [][/\ (pc \in InRamdisk) => (pts' = pts /\ h'.maps = h.maps /\ h'.last = h.last)
          /\ (pc = "rd_ret") =>
                (/\ m'.rd_start = k.rdfile_start_page
                 /\ m'.rd_length = files.rdlen
                 /\ PageOf(ram, m'.rd_start)[1] = <<"r", 0>>
                 /\ \E f \in 1..NFrames : FrameAddr(f) = m'.rd_start /\ f \notin fw.free)]_vars

\* the pages of [vaddr, vaddr + memsz), rounded out to whole pages
RoundedPages(sg) ==
    {AddNat(sg.vaddr, i * PAGE_SIZE) : i \in 0..(CeilDiv(sg.memsz, PAGE_SIZE) - 1)}

\* the LOAD records of the kernel file occupy pairwise disjoint pages
LoadsDisjoint ==
    \A i, j \in {n \in 1..Len(files.kernel.ph) : files.kernel.ph[n].type_ = 1} :
        i # j => RoundedPages(files.kernel.ph[i]) \cap RoundedPages(files.kernel.ph[j]) = {}

\* C28: when the LOAD segments of the image occupy pairwise disjoint
\* page-rounded ranges [vaddr, vaddr + memsz), no call of map made by
\* load_kernel finds its leaf entry already set.
C28_DisjointSegmentsNeverCollide ==
    (HdrChunk = <<"k", 0>> /\ LoadsDisjoint) => h.last.why # "mapped"

\* C29: every record the iterator of program_headers() yields lies inside
\* the slice: its 56 bytes start at an offset p with p + 56 <= length.
C29_RecordsInsideSlice ==
    (pc = "e_iter") =>
       \A j \in 1..Len(k.items) :
          (k.items[j][1] = "Some") =>
             /\ \A i \in 2..4 : k.items[j][2][i] = 0
             /\ k.items[j][2][1] + ProgramHeaderSize <= k.slice.len

====
